---- MODULE Spec2Model ----
(***************************************************************************)
(* USASpending MCP server: the resilient fetch client (throttle, retry,    *)
(* timeout, error translation), the tool handlers built on it, and the     *)
(* filter compiler.                                                        *)
(*                                                                         *)
(* Time is a discrete clock `now` counted in ticks.  The client is         *)
(* constructed with delays given in ticks (the constructor takes them from *)
(* its config); only a suspension point (a sleep, a pending fetch) lets    *)
(* the clock advance, the synchronous code between two awaits is one step. *)
(***************************************************************************)
EXTENDS Integers, Sequences, FiniteSets, TLC

VARIABLES
    now,              \* Date.now()
    client,           \* the USASpendingClient's configuration fields
    lastRequestTime,  \* USASpendingClient.lastRequestTime
    calls,            \* one record per tool invocation (its handler's position)
    host,             \* what the protocol host invokes: handler slots, tools, upstream
    prevDispatchAt,   \* observer: when the client last called fetch (-1: never)
    filterParams,     \* the FilterParams handed to buildAwardFilters
    compiled,         \* what buildAwardFilters returned for filterParams
    sent,             \* the filters a tool handler compiled for its upstream request
    request,          \* the date inputs of a tool invocation, and today's date
    resolved,         \* what the date resolution made of request
    upstream,         \* the page of results a search answered with, and the limit asked
    output            \* what the handler made of upstream

vars == <<now, client, lastRequestTime, calls, host, prevDispatchAt,
          filterParams, compiled, sent, request, resolved, upstream, output>>

filterVars == <<filterParams, compiled, sent>>

dateVars == <<request, resolved>>

resultVars == <<upstream, output>>

clientVars == <<now, client, lastRequestTime, calls, host, prevDispatchAt>>

(***************************************************************************)
(* Bounds of the model.                                                    *)
(***************************************************************************)
NumCalls == 3        \* tool invocations that may run concurrently
MaxTime == 7         \* ticks the clock may advance after construction
ConcurrentMaxTime == 3  \* the same, when invocations run concurrently
RetryMaxTime == 4       \* the same, when two invocations run and retry

Calls == 1..NumCalls

\* An optional value: <<>> when absent (undefined), <<v>> when supplied.
Absent == <<>>
Some(v) == <<v>>
IsSupplied(o) == Len(o) > 0
ValueOf(o) == o[1]

(***************************************************************************)
(* USASpendingClient: configuration                                        *)
(***************************************************************************)
DefaultTimeout == 90000
DefaultMaxRetries == 2
DefaultRetryDelay == 1000
DefaultRequestDelay == 100

\* `a || b` on an optional number: an absent or zero value is falsy.
OrDefault(o, d) == IF IsSupplied(o) /\ ValueOf(o) # 0 THEN ValueOf(o) ELSE d

\* `a ?? b` on an optional number: only an absent value is replaced.
NullishDefault(o, d) == IF IsSupplied(o) THEN ValueOf(o) ELSE d

\* constructor(config)
USASpendingClient(config) ==
    [ timeout      |-> OrDefault(config.timeout, DefaultTimeout),
      maxRetries   |-> NullishDefault(config.maxRetries, DefaultMaxRetries),
      retryDelay   |-> OrDefault(config.retryDelay, DefaultRetryDelay),
      requestDelay |-> OrDefault(config.requestDelay, DefaultRequestDelay) ]

\* The configurations the client is constructed with, delays in ticks.
Configs ==
    { [ timeout |-> Some(3), maxRetries |-> Absent,
        retryDelay |-> Some(2), requestDelay |-> Some(2) ] }

EmptyConfig ==
    [ timeout |-> Absent, maxRetries |-> Absent,
      retryDelay |-> Absent, requestDelay |-> Absent ]

(***************************************************************************)
(* Upstream responses and fetch failures                                   *)
(***************************************************************************)
\* Response bodies, as the text response.text() returns.
BodyDetail == "{\"detail\":\"Invalid filter\"}"
BodyNoDetail == "{\"message\":\"Server Error\"}"
BodyNull == "null"
BodyHtml == "<html>Bad Gateway</html>"
BodyEmpty == ""
BodyResults == "{\"results\":[],\"page_metadata\":{\"total\":0}}"

Bodies == {BodyDetail, BodyNoDetail, BodyNull, BodyHtml, BodyEmpty, BodyResults}

\* JSON.parse(text): a SyntaxError, or the parsed value.
JSONparse(text) ==
    CASE text = BodyDetail    -> [ok |-> TRUE, type |-> "object", hasDetail |-> TRUE,
                                  detail |-> "Invalid filter"]
      [] text = BodyNoDetail  -> [ok |-> TRUE, type |-> "object", hasDetail |-> FALSE,
                                  detail |-> "undefined"]
      [] text = BodyResults   -> [ok |-> TRUE, type |-> "object", hasDetail |-> FALSE,
                                  detail |-> "undefined"]
      [] text = BodyNull      -> [ok |-> TRUE, type |-> "null", hasDetail |-> FALSE,
                                  detail |-> "undefined"]
      [] OTHER                -> [ok |-> FALSE, type |-> "none", hasDetail |-> FALSE,
                                  detail |-> "undefined"]

Statuses == {200, 404, 429, 500}

StatusText(status) ==
    CASE status = 200 -> "OK"
      [] status = 404 -> "Not Found"
      [] status = 429 -> "Too Many Requests"
      [] OTHER        -> "Internal Server Error"

\* response.ok
Ok(status) == status >= 200 /\ status <= 299

Responses == [status : Statuses, body : Bodies]

\* Errors: a name and a message (a sequence of words).
AbortError == [name |-> "AbortError", message |-> <<"This operation was aborted">>]
TimeoutError == [name |-> "TimeoutError",
                 message |-> <<"The operation was aborted due to", "timeout">>]
NetworkError == [name |-> "TypeError", message |-> <<"fetch failed">>]
SyntaxError == [name |-> "SyntaxError", message |-> <<"Unexpected token in JSON">>]
NullTypeError == [name |-> "TypeError",
                  message |-> <<"Cannot read properties of null">>]
Error(message) == [name |-> "Error", message |-> message]

\* What a pending fetch may reject with on its own.
FetchFailures == {NetworkError, TimeoutError}

\* error.message.includes(word)
Includes(message, word) == \E i \in 1..Len(message) : message[i] = word


(***************************************************************************)
(* Tools and the client operation each one calls                           *)
(***************************************************************************)
Tools ==
    { "search_awards", "search_transactions", "get_award_details",
      "search_recipients", "get_recipient_details", "search_idv_awards",
      "get_spending_over_time", "analyze_competition", "search_new_awards" }

ClientOps ==
    { "searchAwards", "searchTransactions", "getSpendingOverTime", "getIdvActivity",
      "getAwardDetails", "searchRecipients", "getRecipientDetails" }

\* The handler's call: a client method, or "fetch" when the handler calls the
\* global fetch itself.
ToolOp(tool, searchNewAwardsOnly) ==
    CASE tool = "search_awards" ->
            IF searchNewAwardsOnly THEN "searchTransactions" ELSE "searchAwards"
      [] tool = "search_new_awards"      -> "searchTransactions"
      [] tool = "search_transactions"    -> "fetch"
      [] tool = "get_award_details"      -> "getAwardDetails"
      [] tool = "search_recipients"      -> "searchRecipients"
      [] tool = "get_recipient_details"  -> "getRecipientDetails"
      [] tool = "search_idv_awards"      -> "getIdvActivity"
      [] tool = "get_spending_over_time" -> "getSpendingOverTime"
      [] OTHER                           -> "searchAwards"

\* The client methods that create an AbortController and arm
\* setTimeout(() => controller.abort(), this.timeout).
ArmsTimeout(op) == op \in {"getAwardDetails", "searchRecipients", "getRecipientDetails"}

\* A client in which no method treats 404 apart.
ReturnsNullNever(op) == FALSE

\* The client methods that return null on a 404 response.
ReturnsNullOn404(op) == op \in {"getAwardDetails", "getRecipientDetails"}

\* The client methods that read data.results after parsing (their log line).
ReadsResults(op) == op \in {"searchAwards", "searchTransactions"}

(***************************************************************************)
(* Payloads: the text a handler returns                                    *)
(***************************************************************************)
NoPayload == [head |-> "", msg |-> <<>>]
ErrorPayload(error) == [head |-> "Error:", msg |-> error.message]
SuccessPayload == [head |-> "{", msg |-> <<"summary", "results">>]
NotFoundPayload(tool) ==
    IF tool = "get_award_details"
    THEN [head |-> "Award with ID", msg |-> <<"not found. Tip: Use the 'internalId' field">>]
    ELSE [head |-> "Recipient with hash", msg |-> <<"not found">>]

BeginsWithError(payload) == payload.head = "Error:"

\* What a client method or a fetch hands back: a value or a thrown error.
NoError == [name |-> "none", message |-> <<>>]
Returned(data) == [thrown |-> FALSE, error |-> NoError, data |-> data]
Thrown(error) == [thrown |-> TRUE, error |-> error, data |-> "none"]

(***************************************************************************)
(* USASpendingClient: error translation of a response                      *)
(***************************************************************************)
\* if (!response.ok) { ... throw new Error(`USASpending API error (...)`) }
ErrorFromResponse(resp) ==
    LET errorText == resp.body
        parsed == JSONparse(errorText)
    IN  IF parsed.ok
        THEN IF parsed.type = "null"
             THEN NullTypeError   \* errorData.detail read on null
             ELSE Error(<<"USASpending API error", ToString(resp.status), parsed.detail>>)
        ELSE Error(<<"USASpending API error", ToString(resp.status),
                     IF errorText # "" THEN errorText ELSE StatusText(resp.status)>>)

\* The body of a client method after fetchWithRetry returned `resp`.
OpOnResponse(op, resp) ==
    IF ReturnsNullOn404(op) /\ resp.status = 404 THEN Returned("null")
    ELSE IF ~Ok(resp.status) THEN Thrown(ErrorFromResponse(resp))
    ELSE LET parsed == JSONparse(resp.body)
         IN  IF ~parsed.ok THEN Thrown(SyntaxError)
             ELSE IF ReadsResults(op) /\ parsed.type = "null" THEN Thrown(NullTypeError)
             ELSE Returned(parsed.type)

\* The catch block of a client method.
OpOnThrow(op, error) ==
    IF ArmsTimeout(op) /\ error.name = "AbortError"
    THEN Thrown(Error(<<"USASpending API request timed out">>))
    ELSE Thrown(error)

(***************************************************************************)
(* Tool handlers                                                           *)
(***************************************************************************)
\* A handler without its catch block: the error leaves the handler.
HandlerRethrow(tool, error) == [outcome |-> "escaped", payload |-> NoPayload]

\* catch (error) { return { content: [{ type: "text", text: `Error: ...` }] } }
HandlerCatch(tool, error) == [outcome |-> "returned", payload |-> ErrorPayload(error)]

\* The handler's code after its awaited call settled with `result`.
HandlerOnResult(tool, result) ==
    IF result.thrown THEN HandlerCatch(tool, result.error)
    ELSE IF tool \in {"get_award_details", "get_recipient_details"}
         THEN IF result.data = "null"
              THEN [outcome |-> "returned", payload |-> NotFoundPayload(tool)]
              ELSE [outcome |-> "returned", payload |-> SuccessPayload]
         ELSE IF result.data = "null"
              THEN HandlerCatch(tool, NullTypeError)   \* result.results read on null
              ELSE [outcome |-> "returned", payload |-> SuccessPayload]

\* search_transactions: the handler's own handling of its fetch response.
DirectOnResponse(resp) ==
    IF ~Ok(resp.status)
    THEN Thrown(Error(<<"API error", ToString(resp.status), resp.body>>))
    ELSE LET parsed == JSONparse(resp.body)
         IN  IF ~parsed.ok THEN Thrown(SyntaxError) ELSE Returned(parsed.type)

(***************************************************************************)
(* USASpendingClient.throttleRequest and fetchWithRetry                    *)
(***************************************************************************)
\* if (timeSinceLastRequest < this.requestDelay)
ShouldSleep(t, last, requestDelay) == (t - last) < requestDelay

\* A throttle that wakes one tick early.
ThrottleSleepForShort(t, last, requestDelay) == requestDelay - (t - last) - 1

\* await this.sleep(this.requestDelay - timeSinceLastRequest)
ThrottleSleepFor(t, last, requestDelay) == requestDelay - (t - last)

\* A backoff that does not grow with the attempt.
BackoffDelayFlat(retryDelay, attempt) == retryDelay

\* const delay = this.retryDelay * Math.pow(2, attempt)
BackoffDelay(retryDelay, attempt) == retryDelay * (2 ^ attempt)

\* A test that recognises a cancellation but not a timeout.
IsAbortOnly(error) == error.name = "AbortError"

\* error.name === 'AbortError' || error.message.includes('timeout')
IsAbortOrTimeout(error) ==
    error.name = "AbortError" \/ Includes(error.message, "timeout")

RateLimitError(maxRetries) ==
    Error(<<"USASpending API rate limit exceeded after", ToString(maxRetries),
            "retries. Please try again later.">>)

NoResponse == [status |-> 0, body |-> ""]

\* What the last fetch of a call met: nothing yet, a response, or a rejection.
NoCause == [kind |-> "none", resp |-> NoResponse, error |-> NoError]
ResponseCause(resp) == [kind |-> "response", resp |-> resp, error |-> NoError]
ErrorCause(error) == [kind |-> "error", resp |-> NoResponse, error |-> error]

\* A handler slot: the position of one tool invocation.
\*   pc        idle, throttleSleep, fetching, backoff, done
\*   via       who called fetch: "client" (fetchWithRetry) or "handler"
\*   deadline  when the abort timer fires (-1: no timer armed)
\*   ceiling   observer: invocation time + timeout (-1: not observed)
\*   saw       observer: prevDispatchAt when the call was issued, until its first fetch
\*   firstGap  observer: first fetch time - saw, while that fetch is pending
\*   dispatched  observer: requests fetchWithRetry has sent for this call
IdleCall ==
    [ tool |-> "none", op |-> "none", pc |-> "idle", via |-> "none", attempt |-> 0,
      dispatched |-> 0,
      sleepFrom |-> 0, wakeAt |-> 0, deadline |-> -1, ceiling |-> -1,
      aborted |-> FALSE, saw |-> -1, firstGap |-> -1,
      cause |-> NoCause, outcome |-> "none", payload |-> NoPayload ]

\* The invocation ends: the client method's result reaches the handler, which
\* returns its payload.
Finish(rec, result) ==
    LET h == HandlerOnResult(rec.tool, result)
    IN  [rec EXCEPT !.pc = "done", !.outcome = h.outcome, !.payload = h.payload,
                    !.sleepFrom = 0, !.wakeAt = 0, !.deadline = -1, !.ceiling = -1,
                    !.aborted = FALSE,
                    !.saw = -1, !.firstGap = -1]

\* await this.sleep(delay); continue;
Backoff(rec) ==
    [rec EXCEPT !.pc = "backoff", !.sleepFrom = now, !.firstGap = -1,
                !.wakeAt = now + BackoffDelay(client.retryDelay, rec.attempt)]

\* fetchWithRetry's catch block, and the throw after the loop.
OnFetchError(rec, error) ==
    IF IsAbortOrTimeout(error) THEN Finish(rec, OpOnThrow(rec.op, error))
    ELSE IF rec.attempt < client.maxRetries THEN Backoff(rec)
    ELSE Finish(rec, OpOnThrow(rec.op, error))

\* A loop that also retries a server error status.
OnResponseRetryingServerErrors(rec, resp) ==
    IF resp.status = 429 \/ resp.status >= 500
    THEN IF rec.attempt < client.maxRetries THEN Backoff(rec)
         ELSE OnFetchError(rec, RateLimitError(client.maxRetries))
    ELSE Finish(rec, OpOnResponse(rec.op, resp))

\* fetchWithRetry after `await fetch(url, options)` resolved with `resp`.
OnResponse(rec, resp) ==
    IF resp.status = 429
    THEN IF rec.attempt < client.maxRetries THEN Backoff(rec)
         ELSE OnFetchError(rec, RateLimitError(client.maxRetries))
    ELSE Finish(rec, OpOnResponse(rec.op, resp))

\* throttleRequest's last line, then fetch(url, options).  A fetch whose signal
\* is already aborted rejects at once and sends nothing.
Dispatch(c, rec) ==
    /\ lastRequestTime' = now
    /\ IF rec.aborted
       THEN /\ calls' = [calls EXCEPT ![c] =
                           OnFetchError([rec EXCEPT !.cause = ErrorCause(AbortError)],
                                        AbortError)]
            /\ UNCHANGED prevDispatchAt
       ELSE /\ calls' = [calls EXCEPT ![c] =
                           [rec EXCEPT !.pc = "fetching", !.via = "client",
                                       !.dispatched = @ + 1,
                                       !.sleepFrom = 0, !.wakeAt = 0, !.saw = -1,
                                       !.firstGap = IF rec.attempt = 0 /\ rec.saw # -1
                                                    THEN now - rec.saw ELSE -1]]
            /\ prevDispatchAt' = now

\* The head of fetchWithRetry's loop: throttleRequest up to its await.
EnterAttempt(c, rec) ==
    IF ShouldSleep(now, lastRequestTime, client.requestDelay)
    THEN /\ calls' = [calls EXCEPT ![c] =
                        [rec EXCEPT !.pc = "throttleSleep",
                                    !.wakeAt = now + ThrottleSleepFor(now, lastRequestTime,
                                                                     client.requestDelay)]]
         /\ UNCHANGED <<lastRequestTime, prevDispatchAt>>
    ELSE Dispatch(c, rec)

(***************************************************************************)
(* Actions of the client and the handlers                                  *)
(***************************************************************************)
\* A handler's return is synchronous with the step that settles its call:
\* nothing else runs before the host has the payload.
Quiet == \A c \in Calls : calls[c].pc # "done"

\* The host invokes a tool: its handler runs up to its first await.
Invoke(c, tool, searchNewAwardsOnly) ==
    /\ Quiet
    /\ calls[c].pc = "idle"
    /\ \A d \in host.calls : d < c => calls[d].pc # "idle"
    /\ LET op == ToolOp(tool, searchNewAwardsOnly)
           rec == [IdleCall EXCEPT !.tool = tool, !.op = op, !.saw = prevDispatchAt,
                                   !.deadline = IF ArmsTimeout(op)
                                                THEN now + client.timeout ELSE -1,
                                   !.ceiling = IF host.observeCeiling
                                               THEN now + client.timeout ELSE -1]
       IN  IF op = "fetch"
           THEN /\ calls' = [calls EXCEPT ![c] =
                               [rec EXCEPT !.pc = "fetching", !.via = "handler",
                                           !.saw = -1]]
                /\ UNCHANGED <<lastRequestTime, prevDispatchAt>>
           ELSE EnterAttempt(c, rec)
    /\ UNCHANGED <<now, client, host, filterVars, dateVars, resultVars>>

\* The throttle sleep's timer fires.
ThrottleWake(c) ==
    /\ Quiet
    /\ calls[c].pc = "throttleSleep"
    /\ now >= calls[c].wakeAt
    /\ Dispatch(c, calls[c])
    /\ UNCHANGED <<now, client, host, filterVars, dateVars, resultVars>>

\* The upstream answers a request the client sent.
Respond(c, resp) ==
    /\ Quiet
    /\ calls[c].pc = "fetching"
    /\ calls[c].via = "client"
    /\ calls' = [calls EXCEPT ![c] =
                   OnResponse([calls[c] EXCEPT !.cause = ResponseCause(resp)], resp)]
    /\ UNCHANGED <<now, client, host, lastRequestTime, prevDispatchAt, filterVars, dateVars, resultVars>>

\* A request the client sent fails: fetch rejects.
FetchFail(c, error) ==
    /\ Quiet
    /\ calls[c].pc = "fetching"
    /\ calls[c].via = "client"
    /\ calls' = [calls EXCEPT ![c] =
                   OnFetchError([calls[c] EXCEPT !.cause = ErrorCause(error)], error)]
    /\ UNCHANGED <<now, client, host, lastRequestTime, prevDispatchAt, filterVars, dateVars, resultVars>>

\* An armed abort timer that is due and has not fired yet.
TimerDue(c) ==
    /\ calls[c].pc \in {"throttleSleep", "fetching", "backoff"}
    /\ calls[c].deadline >= 0
    /\ ~calls[c].aborted
    /\ now >= calls[c].deadline

\* The abort timer of a client method fires: controller.abort().
TimeoutFire(c) ==
    /\ Quiet
    /\ TimerDue(c)
    /\ calls' = [calls EXCEPT ![c] =
                   IF calls[c].pc = "fetching"
                   THEN OnFetchError([calls[c] EXCEPT !.aborted = TRUE,
                                                      !.cause = ErrorCause(AbortError)],
                                     AbortError)
                   ELSE [calls[c] EXCEPT !.aborted = TRUE]]
    /\ UNCHANGED <<now, client, host, lastRequestTime, prevDispatchAt, filterVars, dateVars, resultVars>>

\* The backoff sleep's timer fires: the loop's next iteration.
BackoffWake(c) ==
    /\ Quiet
    /\ calls[c].pc = "backoff"
    /\ now >= calls[c].wakeAt
    /\ EnterAttempt(c, [calls[c] EXCEPT !.attempt = @ + 1, !.cause = NoCause])
    /\ UNCHANGED <<now, client, host, filterVars, dateVars, resultVars>>

\* search_transactions: the handler's own fetch settles.
RespondDirect(c, resp) ==
    /\ Quiet
    /\ calls[c].pc = "fetching"
    /\ calls[c].via = "handler"
    /\ calls' = [calls EXCEPT ![c] =
                   Finish([calls[c] EXCEPT !.cause = ResponseCause(resp)],
                          DirectOnResponse(resp))]
    /\ UNCHANGED <<now, client, host, lastRequestTime, prevDispatchAt, filterVars, dateVars, resultVars>>

FetchFailDirect(c, error) ==
    /\ Quiet
    /\ calls[c].pc = "fetching"
    /\ calls[c].via = "handler"
    /\ calls' = [calls EXCEPT ![c] =
                   Finish([calls[c] EXCEPT !.cause = ErrorCause(error)], Thrown(error))]
    /\ UNCHANGED <<now, client, host, lastRequestTime, prevDispatchAt, filterVars, dateVars, resultVars>>

\* The host takes the handler's payload; the slot is free again.
Return(c) ==
    /\ calls[c].pc = "done"
    /\ calls' = [calls EXCEPT ![c] = IdleCall]
    /\ UNCHANGED <<now, client, host, lastRequestTime, prevDispatchAt, filterVars, dateVars, resultVars>>

\* Time passes.  An abort timer fires when it is due; a sleep may end late.
Tick ==
    /\ Quiet
    /\ now < client.requestDelay + host.horizon
    /\ \A c \in Calls : ~TimerDue(c)
    /\ now' = now + 1
    /\ UNCHANGED <<client, host, lastRequestTime, calls, prevDispatchAt, filterVars, dateVars, resultVars>>

\* The times, later than now, at which a sleep ends or an abort timer fires.
PendingTimes ==
    { calls[c].wakeAt : c \in {d \in Calls : /\ calls[d].pc \in {"throttleSleep", "backoff"}
                                            /\ calls[d].wakeAt > now} }
    \union
    { calls[c].deadline : c \in {d \in Calls :
                                   /\ calls[d].pc \in {"throttleSleep", "fetching", "backoff"}
                                   /\ ~calls[d].aborted
                                   /\ calls[d].deadline > now} }

\* setTimeout past the horizon: the model's clock has stopped, time has not.
\* The earliest pending timer becomes due.
Elapse ==
    /\ Quiet
    /\ now = client.requestDelay + host.horizon
    /\ PendingTimes # {}
    /\ LET next == CHOOSE t \in PendingTimes : \A u \in PendingTimes : t <= u
       IN  calls' = [c \in Calls |->
                       [calls[c] EXCEPT
                           !.wakeAt = IF calls[c].pc \in {"throttleSleep", "backoff"}
                                         /\ @ = next THEN now ELSE @,
                           !.deadline = IF calls[c].pc \in {"throttleSleep", "fetching",
                                                            "backoff"}
                                           /\ ~calls[c].aborted /\ @ = next
                                        THEN now ELSE @]]
    /\ UNCHANGED <<now, client, host, lastRequestTime, prevDispatchAt, filterVars, dateVars, resultVars>>

\* The fetch of a call settles: the upstream answers or the request fails.
Settle(c) ==
    \/ \E resp \in host.responses : Respond(c, resp)
    \/ \E error \in FetchFailures : FetchFail(c, error)
    \/ \E resp \in host.responses : RespondDirect(c, resp)
    \/ \E error \in FetchFailures : FetchFailDirect(c, error)

(***************************************************************************)
(* Filter compiler (buildAwardFilters and its helpers)                     *)
(***************************************************************************)
MaxSupplied == 2     \* fields of a FilterParams that are supplied at once

ArrayFields ==
    { "keywords", "naicsCodes", "pscCodes", "awardTypeCodes", "setAsideTypes",
      "extentCompeted", "contractPricingTypes" }
StringFields == {"recipientName", "agencyName", "state"}
DateFields == {"activityStartDate", "activityEndDate"}
NumberFields == {"minAmount", "maxAmount"}

\* interface FilterParams
FilterFields == ArrayFields \cup StringFields \cup DateFields \cup NumberFields

\* The values a supplied field is drawn from, by position.
NumVariants(field) == IF field \in ArrayFields THEN 3 ELSE 2

Variant(field, i) ==
    CASE field \in ArrayFields  -> IF i = 1 THEN <<>>
                                   ELSE IF i = 2 THEN <<"X1">> ELSE <<"X1", "X2">>
      [] field \in StringFields -> IF i = 1 THEN "" ELSE "Acme"
      [] field \in DateFields   -> IF i = 1 THEN "" ELSE "2024-01-15"
      [] OTHER                  -> IF i = 1 THEN 0 ELSE 1000

\* Every FilterParams with at most MaxSupplied fields supplied.
FilterParamSets ==
    UNION { { [field \in FilterFields |->
                 IF field \in S THEN Some(Variant(field, g[field])) ELSE Absent] :
              g \in [S -> 1..3] } :
            S \in {T \in SUBSET FilterFields : Cardinality(T) <= MaxSupplied} }

NoParams == [field \in FilterFields |-> Absent]

\* Calendar dates: new Date() read as a year, a month and a day.
Todays ==
    { [y |-> 2024, m |-> 2, d |-> 29], [y |-> 2025, m |-> 11, d |-> 4],
      [y |-> 2023, m |-> 12, d |-> 31] }

NoDate == [y |-> 0, m |-> 0, d |-> 0]

IsLeapYear(y) == (y % 4 = 0 /\ y % 100 # 0) \/ y % 400 = 0

\* A default start that is not moved back.
OneYearBeforeUnmoved(date) == date

\* date.setFullYear(date.getFullYear() - 1): Feb 29 rolls over to Mar 1.
OneYearBefore(date) ==
    IF date.m = 2 /\ date.d = 29 /\ ~IsLeapYear(date.y - 1)
    THEN [y |-> date.y - 1, m |-> 3, d |-> 1]
    ELSE [date EXCEPT !.y = @ - 1]

Pad2(n) == IF n < 10 THEN "0" \o ToString(n) ELSE ToString(n)

\* date.toISOString().split('T')[0]
ISODate(date) == ToString(date.y) \o "-" \o Pad2(date.m) \o "-" \o Pad2(date.d)

\* null, as a helper returns it; a returned array `a` is Some(a).
Null == <<>>

\* A JS string used as a condition: supplied and not "".
TruthyString(o) == IF IsSupplied(o) THEN ValueOf(o) # "" ELSE FALSE

\* `a && a.length > 0` on an optional array.
NonEmptyArray(o) == IF IsSupplied(o) THEN Len(ValueOf(o)) > 0 ELSE FALSE

\* A time filter that always ends today.
buildTimeFilterEndingToday(startDate, endDate, today) ==
    IF ~TruthyString(startDate) /\ ~TruthyString(endDate) THEN Null
    ELSE Some(<<[start_date |-> IF TruthyString(startDate) THEN ValueOf(startDate)
                                ELSE ISODate(OneYearBefore(today)),
                 end_date |-> ISODate(today)]>>)

buildTimeFilter(startDate, endDate, today) ==
    IF ~TruthyString(startDate) /\ ~TruthyString(endDate) THEN Null
    ELSE LET start == IF TruthyString(startDate) THEN ValueOf(startDate)
                      ELSE ISODate(OneYearBefore(today))
             end == IF TruthyString(endDate) THEN ValueOf(endDate) ELSE ISODate(today)
         IN  Some(<<[start_date |-> start, end_date |-> end]>>)

buildRecipientFilter(recipientName) ==
    IF TruthyString(recipientName) THEN Some(<<ValueOf(recipientName)>>) ELSE Null

buildAgencyFilter(agencyName) ==
    IF TruthyString(agencyName)
    THEN Some(<<[type |-> "awarding", tier |-> "toptier", name |-> ValueOf(agencyName)]>>)
    ELSE Null

\* A NAICS helper without the length test.
buildNaicsFilterUnguarded(naicsCodes) == naicsCodes

buildNaicsFilter(naicsCodes) ==
    IF NonEmptyArray(naicsCodes) THEN Some(ValueOf(naicsCodes)) ELSE Null

buildPscFilter(pscCodes) ==
    IF NonEmptyArray(pscCodes) THEN Some(ValueOf(pscCodes)) ELSE Null

\* An amount helper that fills an absent bound with zero.
buildAmountFilterZeroFilled(minAmount, maxAmount) ==
    IF ~IsSupplied(minAmount) /\ ~IsSupplied(maxAmount) THEN Null
    ELSE Some(<<[lower_bound |-> Some(IF IsSupplied(minAmount) THEN ValueOf(minAmount) ELSE 0),
                 upper_bound |-> Some(IF IsSupplied(maxAmount) THEN ValueOf(maxAmount) ELSE 0)]>>)

\* A property holding undefined is a property of the object (an Absent field).
buildAmountFilter(minAmount, maxAmount) ==
    IF ~IsSupplied(minAmount) /\ ~IsSupplied(maxAmount) THEN Null
    ELSE Some(<<[lower_bound |-> minAmount, upper_bound |-> maxAmount]>>)

buildPlaceOfPerformanceFilter(state) ==
    IF TruthyString(state) THEN Some(<<[country |-> "USA", state |-> ValueOf(state)]>>)
    ELSE Null

buildSetAsideFilter(setAsideTypes) ==
    IF NonEmptyArray(setAsideTypes) THEN Some(ValueOf(setAsideTypes)) ELSE Null

buildCompetitionFilter(extentCompeted) ==
    IF NonEmptyArray(extentCompeted) THEN Some(ValueOf(extentCompeted)) ELSE Null

buildContractPricingFilter(contractPricingTypes) ==
    IF NonEmptyArray(contractPricingTypes) THEN Some(ValueOf(contractPricingTypes))
    ELSE Null

buildKeywordsFilter(keywords) ==
    IF NonEmptyArray(keywords) THEN Some(ValueOf(keywords)) ELSE Null

\* An assignment that leaves the object with the one key.
PutAlone(filters, key, value) == [k \in {key} |-> value]

\* filters[key] = value
Put(filters, key, value) ==
    [k \in (DOMAIN filters) \cup {key} |-> IF k = key THEN value ELSE filters[k]]

\* if (built) filters[key] = built
PutIf(filters, key, built) ==
    IF IsSupplied(built) THEN Put(filters, key, ValueOf(built)) ELSE filters

DefaultAwardTypeCodes == <<"A", "B", "C", "D">>

\* An optional array is truthy whenever it is supplied, empty or not.
buildAwardFilters(params, today) ==
    LET f0  == Put(<<>>, "award_type_codes",
                   IF IsSupplied(params.awardTypeCodes)
                   THEN ValueOf(params.awardTypeCodes) ELSE DefaultAwardTypeCodes)
        f1  == PutIf(f0, "keywords", buildKeywordsFilter(params.keywords))
        f2  == PutIf(f1, "time_period",
                     buildTimeFilter(params.activityStartDate, params.activityEndDate,
                                     today))
        f3  == PutIf(f2, "recipient_search_text", buildRecipientFilter(params.recipientName))
        f4  == PutIf(f3, "agencies", buildAgencyFilter(params.agencyName))
        f5  == PutIf(f4, "naics_codes", buildNaicsFilter(params.naicsCodes))
        f6  == PutIf(f5, "psc_codes", buildPscFilter(params.pscCodes))
        f7  == PutIf(f6, "award_amounts",
                     buildAmountFilter(params.minAmount, params.maxAmount))
        f8  == PutIf(f7, "place_of_performance_locations",
                     buildPlaceOfPerformanceFilter(params.state))
        f9  == PutIf(f8, "set_aside_type_codes", buildSetAsideFilter(params.setAsideTypes))
        f10 == PutIf(f9, "extent_competed_type_codes",
                     buildCompetitionFilter(params.extentCompeted))
    IN  PutIf(f10, "contract_pricing_type_codes",
              buildContractPricingFilter(params.contractPricingTypes))

NotBuiltAgain == [built |-> FALSE, today |-> NoDate, filters |-> <<>>]

NotChanged == [field |-> "none", value |-> Absent, filters |-> <<>>]

\* today: the date new Date() gave the compilation; again: a second compilation
\* of the same FilterParams; changed: a compilation of the FilterParams with
\* one field given another value.
NotBuilt ==
    [built |-> FALSE, today |-> NoDate, filters |-> <<>>, again |-> NotBuiltAgain,
     changed |-> NotChanged]

\* A caller compiles its FilterParams.
Build(today) ==
    /\ ~compiled.built
    /\ compiled' = [NotBuilt EXCEPT !.built = TRUE, !.today = today,
                                    !.filters = buildAwardFilters(filterParams, today)]
    /\ UNCHANGED <<clientVars, filterParams, sent, dateVars, resultVars>>

(***************************************************************************)
(* Date utilities (parseNaturalDate, parseDateRange, getFiscalYearRange)   *)
(***************************************************************************)
\* The dates new Date() is read as by the date utilities.
DateTodays ==
    { [y |-> 2024, m |-> 3, d |-> 15], [y |-> 2024, m |-> 3, d |-> 31],
      [y |-> 2024, m |-> 2, d |-> 29], [y |-> 2025, m |-> 1, d |-> 1] }

DaysInMonth(y, m) ==
    IF m = 2 THEN (IF IsLeapYear(y) THEN 29 ELSE 28)
    ELSE IF m \in {4, 6, 9, 11} THEN 30 ELSE 31

\* A day before that does not borrow from the month.
PrevDayWithinMonth(date) == [date EXCEPT !.d = IF @ > 1 THEN @ - 1 ELSE 1]

PrevDay(date) ==
    IF date.d > 1 THEN [date EXCEPT !.d = @ - 1]
    ELSE IF date.m > 1
         THEN [y |-> date.y, m |-> date.m - 1, d |-> DaysInMonth(date.y, date.m - 1)]
         ELSE [y |-> date.y - 1, m |-> 12, d |-> 31]

\* date.setDate(date.getDate() - n)
RECURSIVE DaysBefore(_, _)
DaysBefore(date, n) == IF n = 0 THEN date ELSE DaysBefore(PrevDay(date), n - 1)

\* A Date setter leaves a day past the month's end to run into the next month.
RollOver(y, m, d) ==
    IF d <= DaysInMonth(y, m) THEN [y |-> y, m |-> m, d |-> d]
    ELSE IF m = 12 THEN [y |-> y + 1, m |-> 1, d |-> d - DaysInMonth(y, m)]
    ELSE [y |-> y, m |-> m + 1, d |-> d - DaysInMonth(y, m)]

\* date.setMonth(date.getMonth() - k)
MonthsBefore(date, k) ==
    LET index == (date.y * 12 + (date.m - 1)) - k
    IN  RollOver(index \div 12, (index % 12) + 1, date.d)

\* date.setFullYear(date.getFullYear() - k)
YearsBefore(date, k) == RollOver(date.y - k, date.m, date.d)

formatDate(date) == ToString(date.y) \o "-" \o Pad2(date.m) \o "-" \o Pad2(date.d)

\* The strings handed to the date utilities.
Phrases ==
    { "today", "yesterday", "3 days ago", "last 30 days", "Last 30 Days ",
      "last 7 days", "last week", "last month", "last 3 months", "last quarter",
      "last year", "2 years ago", "2024-01-15", "January 15, 2024",
      "sometime soon", "" }

\* dateStr.toLowerCase().trim()
toLowerCaseTrim(str) == IF str = "Last 30 Days " THEN "last 30 days" ELSE
                        IF str = "January 15, 2024" THEN "january 15, 2024" ELSE str

\* /^\d{4}-\d{2}-\d{2}$/.test(dateStr)
MatchesISODate(str) == str = "2024-01-15"

\* lower.match(/^(\d+)\s+days?\s+ago$/), parseInt of its group
DaysAgoMatch(lower) == IF lower = "3 days ago" THEN Some(3) ELSE Absent

\* lower.match(/^last\s+(\d+)\s+days?$/), parseInt of its group
LastDaysMatch(lower) ==
    IF lower = "last 30 days" THEN Some(30)
    ELSE IF lower = "last 7 days" THEN Some(7) ELSE Absent

\* lower.match(/^last\s+(\d+)\s+months?$/), parseInt of its group
LastMonthsMatch(lower) == IF lower = "last 3 months" THEN Some(3) ELSE Absent

\* lower.match(/^(\d+)\s+years?\s+ago$/), parseInt of its group
YearsAgoMatch(lower) == IF lower = "2 years ago" THEN Some(2) ELSE Absent

\* new Date(dateStr): Absent for an Invalid Date.
DateConstructor(str) ==
    IF str = "January 15, 2024" THEN Some([y |-> 2024, m |-> 1, d |-> 15]) ELSE Absent

\* warned: console.warn was called.
Parsed(date) == [value |-> formatDate(date), warned |-> FALSE]

\* console.warn(`Could not parse ...`) before the fallback result is returned.
consoleWarn(result) == [result EXCEPT !.warned = TRUE]

parseNaturalDate(dateStr, today) ==
    IF MatchesISODate(dateStr) THEN [value |-> dateStr, warned |-> FALSE]
    ELSE LET lower == toLowerCaseTrim(dateStr)
         IN  IF lower = "today" THEN Parsed(today)
             ELSE IF lower = "yesterday" THEN Parsed(DaysBefore(today, 1))
             ELSE IF IsSupplied(DaysAgoMatch(lower))
                  THEN Parsed(DaysBefore(today, ValueOf(DaysAgoMatch(lower))))
             ELSE IF IsSupplied(LastDaysMatch(lower))
                  THEN Parsed(DaysBefore(today, ValueOf(LastDaysMatch(lower))))
             ELSE IF lower = "last week" THEN Parsed(DaysBefore(today, 7))
             ELSE IF lower = "last month" THEN Parsed(MonthsBefore(today, 1))
             ELSE IF IsSupplied(LastMonthsMatch(lower))
                  THEN Parsed(MonthsBefore(today, ValueOf(LastMonthsMatch(lower))))
             ELSE IF lower = "last quarter" THEN Parsed(MonthsBefore(today, 3))
             ELSE IF lower = "last year" THEN Parsed(YearsBefore(today, 1))
             ELSE IF IsSupplied(YearsAgoMatch(lower))
                  THEN Parsed(YearsBefore(today, ValueOf(YearsAgoMatch(lower))))
             ELSE IF IsSupplied(DateConstructor(dateStr))
                  THEN Parsed(ValueOf(DateConstructor(dateStr)))
             ELSE consoleWarn(Parsed(today))

Range(startDate, endDate) ==
    [start_date |-> formatDate(startDate), end_date |-> formatDate(endDate),
     warned |-> FALSE]

parseDateRange(rangeStr, today) ==
    LET lower == toLowerCaseTrim(rangeStr)
    IN  IF lower = "yesterday" THEN Range(DaysBefore(today, 1), DaysBefore(today, 1))
        ELSE IF lower = "today" THEN Range(today, today)
        ELSE IF IsSupplied(LastDaysMatch(lower))
             THEN Range(DaysBefore(today, ValueOf(LastDaysMatch(lower))), today)
        ELSE IF lower = "last week" THEN Range(DaysBefore(today, 7), today)
        ELSE IF lower = "last month" THEN Range(MonthsBefore(today, 1), today)
        ELSE IF IsSupplied(LastMonthsMatch(lower))
             THEN Range(MonthsBefore(today, ValueOf(LastMonthsMatch(lower))), today)
        ELSE IF lower = "last quarter" THEN Range(MonthsBefore(today, 3), today)
        ELSE IF lower = "last year" THEN Range(YearsBefore(today, 1), today)
        ELSE consoleWarn(Range(DaysBefore(today, 30), today))

getFiscalYearRange(fiscalYear) ==
    [start_date |-> ToString(fiscalYear - 1) \o "-10-01",
     end_date |-> ToString(fiscalYear) \o "-09-30"]

\* A fiscal year that begins in September.
getCurrentFiscalYearFromSeptember(today) == IF today.m >= 9 THEN today.y + 1 ELSE today.y

\* getMonth() is 0-indexed: month >= 9 is October to December.
getCurrentFiscalYear(today) == IF today.m - 1 >= 9 THEN today.y + 1 ELSE today.y

(***************************************************************************)
(* search_awards (app/mcp/route.ts): which date inputs make time_period    *)
(***************************************************************************)
\* A JS number used as a condition: supplied and not 0.
TruthyNumber(o) == IF IsSupplied(o) THEN ValueOf(o) # 0 ELSE FALSE

NoPeriod == [has_period |-> FALSE, start_date |-> "", end_date |-> "", warned |-> FALSE]

Period(range) ==
    [has_period |-> TRUE, start_date |-> range.start_date, end_date |-> range.end_date,
     warned |-> range.warned]

\* startDate / endDate, each parsed when given and defaulted when not.
ExplicitPeriod(req) ==
    LET start == IF TruthyString(req.startDate)
                 THEN parseNaturalDate(ValueOf(req.startDate), req.today)
                 ELSE [value |-> ISODate(OneYearBefore(req.today)), warned |-> FALSE]
        end == IF TruthyString(req.endDate)
               THEN parseNaturalDate(ValueOf(req.endDate), req.today)
               ELSE [value |-> ISODate(req.today), warned |-> FALSE]
    IN  [has_period |-> TRUE, start_date |-> start.value, end_date |-> end.value,
         warned |-> start.warned \/ end.warned]

\* A handler that looks at startDate / endDate before fiscalYear and dateRange.
SearchAwardsTimePeriodExplicitFirst(req) ==
    IF TruthyString(req.startDate) \/ TruthyString(req.endDate) THEN ExplicitPeriod(req)
    ELSE IF TruthyString(req.dateRange)
         THEN Period(parseDateRange(ValueOf(req.dateRange), req.today))
    ELSE IF TruthyNumber(req.fiscalYear)
         THEN LET fyRange == getFiscalYearRange(ValueOf(req.fiscalYear))
              IN  [has_period |-> TRUE, start_date |-> fyRange.start_date,
                   end_date |-> fyRange.end_date, warned |-> FALSE]
    ELSE NoPeriod

\* if (fiscalYear) ... else if (dateRange) ... else if (startDate || endDate) ...
SearchAwardsTimePeriod(req) ==
    IF TruthyNumber(req.fiscalYear)
    THEN LET fyRange == getFiscalYearRange(ValueOf(req.fiscalYear))
         IN  [has_period |-> TRUE, start_date |-> fyRange.start_date,
              end_date |-> fyRange.end_date, warned |-> FALSE]
    ELSE IF TruthyString(req.dateRange)
         THEN Period(parseDateRange(ValueOf(req.dateRange), req.today))
    ELSE IF TruthyString(req.startDate) \/ TruthyString(req.endDate)
         THEN ExplicitPeriod(req)
    ELSE NoPeriod

NoRequest ==
    [today |-> NoDate, fiscalYear |-> Absent, dateRange |-> Absent,
     startDate |-> Absent, endDate |-> Absent]

\* The date inputs a tool may be invoked with.
DateRequests ==
    [ today : DateTodays,
      fiscalYear : {Absent, Some(0), Some(2024)},
      dateRange : {Absent} \cup {Some(p) : p \in Phrases},
      startDate : {Absent} \cup {Some(p) : p \in Phrases},
      endDate : {Absent, Some("2024-01-15"), Some("today")} ]

\* by: the function that produced the result (none: nothing resolved yet).
NotResolved ==
    [by |-> "none", value |-> "", has_period |-> FALSE, start_date |-> "",
     end_date |-> "", warned |-> FALSE]

\* parseNaturalDate(startDate)
ResolveDate ==
    /\ resolved.by = "none"
    /\ IsSupplied(request.startDate)
    /\ LET r == parseNaturalDate(ValueOf(request.startDate), request.today)
       IN  resolved' = [NotResolved EXCEPT !.by = "parseNaturalDate", !.value = r.value,
                                           !.warned = r.warned]
    /\ UNCHANGED <<clientVars, filterVars, request, resultVars>>

\* parseDateRange(dateRange)
ResolveRange ==
    /\ resolved.by = "none"
    /\ IsSupplied(request.dateRange)
    /\ LET r == parseDateRange(ValueOf(request.dateRange), request.today)
       IN  resolved' = [NotResolved EXCEPT !.by = "parseDateRange", !.has_period = TRUE,
                                           !.start_date = r.start_date,
                                           !.end_date = r.end_date, !.warned = r.warned]
    /\ UNCHANGED <<clientVars, filterVars, request, resultVars>>

\* search_awards: the handler's date handling.
SearchAwardsDates ==
    /\ resolved.by = "none"
    /\ LET r == SearchAwardsTimePeriod(request)
       IN  resolved' = [NotResolved EXCEPT !.by = "search_awards",
                                           !.has_period = r.has_period,
                                           !.start_date = r.start_date,
                                           !.end_date = r.end_date, !.warned = r.warned]
    /\ UNCHANGED <<clientVars, filterVars, request, resultVars>>

\* The days new Date() is read as by getCurrentFiscalYear: every day of two
\* calendar years, one of them a leap year.
FiscalTodays ==
    UNION { { [y |-> y, m |-> m, d |-> d] : d \in 1..DaysInMonth(y, m) }
            : <<y, m>> \in {2023, 2024} \X (1..12) }

\* getCurrentFiscalYear()
CurrentFiscalYear ==
    /\ resolved.by = "none"
    /\ request.fiscalYear = Absent
    /\ request' = [request EXCEPT !.fiscalYear = Some(getCurrentFiscalYear(request.today))]
    /\ UNCHANGED <<clientVars, filterVars, resolved, resultVars>>

\* getFiscalYearRange(fiscalYear) of the year getCurrentFiscalYear returned
FiscalYearRange ==
    /\ resolved.by = "none"
    /\ IsSupplied(request.fiscalYear)
    /\ LET fyRange == getFiscalYearRange(ValueOf(request.fiscalYear))
       IN  resolved' = [NotResolved EXCEPT !.by = "getFiscalYearRange",
                                           !.has_period = TRUE,
                                           !.start_date = fyRange.start_date,
                                           !.end_date = fyRange.end_date]
    /\ UNCHANGED <<clientVars, filterVars, request, resultVars>>

NotSent == [tool |-> "none", today |-> NoDate, filters |-> <<>>]

(***************************************************************************)
(* What the handlers make of a page of results                             *)
(***************************************************************************)
MaxPage == 3

NoUpstream == [kind |-> "none", results |-> Absent, limit |-> Absent]

NoOutput == [tool |-> "none"]

\* str.trim()
trim(str) == IF str = " 0 " THEN "0" ELSE str

\* tx["Modification Number"] as upstream sends it; Absent: null or missing.
ModificationNumbers == {Some("0"), Some("1"), Some(""), Some(" 0 "), Absent}

AwardIds == <<"A1", "A2", "A3">>

\* A raw transaction record (the fields the handlers read).
Transaction(i, modificationNumber) ==
    [field \in {"Award ID", "Modification Number"} |->
        IF field = "Award ID" THEN Some(AwardIds[i]) ELSE modificationNumber]

\* result of client.searchTransactions: results is missing, or a page.
TransactionPages ==
    { [kind |-> "transactions", results |-> Absent, limit |-> Absent] } \union
    UNION { { [kind |-> "transactions",
               results |-> Some([i \in 1..n |-> Transaction(i, mods[i])]),
               limit |-> Absent] : mods \in [1..n -> ModificationNumbers] }
            : n \in 0..MaxPage }

\* String(tx["Modification Number"] || "").trim()
ModNum(tx) ==
    trim(IF TruthyString(tx["Modification Number"])
         THEN ValueOf(tx["Modification Number"]) ELSE "")

\* search_new_awards: modNum === "0" || modNum === ""
IsNewAward(tx) == ModNum(tx) = "0" \/ ModNum(tx) = ""

\* search_awards with searchNewAwardsOnly: modNum === "0"
IsBaseAward(tx) == ModNum(tx) = "0"

\* A missing key read as the empty string.
FieldOrEmpty(record, key) == IF key \in DOMAIN record THEN record[key] ELSE Some("")

\* record[key]: undefined (Absent) when the record has no such key.
Field(record, key) == IF key \in DOMAIN record THEN record[key] ELSE Absent

\* The object literal transformTransactionResult returns; a property whose
\* value is undefined is Absent. The other fields are copied the same way.
transformTransactionResult(tx) ==
    [awardId |-> Field(tx, "Award ID"),
     actionDate |-> Field(tx, "Action Date"),
     transactionAmount |-> Field(tx, "Transaction Amount"),
     modificationNumber |-> Field(tx, "Modification Number")]

\* The other fields are copied the same way; placeOfPerformance is an object
\* literal of its own.
transformAwardResult(award) ==
    [id |-> Field(award, "Award ID"),
     internalId |-> Field(award, "generated_internal_id"),
     amount |-> Field(award, "Award Amount"),
     placeOfPerformance |->
         [stateCode |-> Field(award, "Place of Performance State Code"),
          city |-> Field(award, "Place of Performance City Name")]]

transformRecipientResult(recipient) ==
    [hash |-> Field(recipient, "recipient_hash"),
     name |-> Field(recipient, "recipient_name"),
     uei |-> Field(recipient, "recipient_uei"),
     duns |-> Field(recipient, "recipient_unique_id"),
     level |-> Field(recipient, "recipient_level")]

AwardKeys == {"Award ID", "generated_internal_id", "Award Amount",
              "Place of Performance State Code", "Place of Performance City Name"}

TransactionKeys == {"Award ID", "Action Date", "Transaction Amount",
                    "Modification Number"}

RecipientKeys == {"recipient_hash", "recipient_name", "recipient_uei",
                  "recipient_unique_id", "recipient_level"}

\* Every raw record that has a subset of the keys; the value under a key is
\* a text naming the key.
RawRecords(keys) == { [k \in present |-> Some("value of " \o k)] : present \in SUBSET keys }

\* One raw record of a page of awards, of transactions or of recipients.
RecordPages ==
    { [kind |-> "award", results |-> Some(<<r>>), limit |-> Absent]
        : r \in RawRecords(AwardKeys) } \union
    { [kind |-> "transaction", results |-> Some(<<r>>), limit |-> Absent]
        : r \in RawRecords(TransactionKeys) } \union
    { [kind |-> "recipient", results |-> Some(<<r>>), limit |-> Absent]
        : r \in RawRecords(RecipientKeys) }

\* result.results?.map(transformAwardResult), on a page of one record.
TransformAward ==
    /\ upstream.kind = "award"
    /\ output.tool = "none"
    /\ output' = [tool |-> "transformAwardResult",
                  object |-> transformAwardResult(ValueOf(upstream.results)[1])]
    /\ UNCHANGED <<clientVars, filterVars, dateVars, upstream>>

TransformTransaction ==
    /\ upstream.kind = "transaction"
    /\ output.tool = "none"
    /\ output' = [tool |-> "transformTransactionResult",
                  object |-> transformTransactionResult(ValueOf(upstream.results)[1])]
    /\ UNCHANGED <<clientVars, filterVars, dateVars, upstream>>

TransformRecipient ==
    /\ upstream.kind = "recipient"
    /\ output.tool = "none"
    /\ output' = [tool |-> "transformRecipientResult",
                  object |-> transformRecipientResult(ValueOf(upstream.results)[1])]
    /\ UNCHANGED <<clientVars, filterVars, dateVars, upstream>>

\* array.map(transformTransactionResult)
transformTransactionResults(array) ==
    [i \in 1..Len(array) |-> transformTransactionResult(array[i])]

\* The page that result.results?.filter(...) || [] filters: none when
\* result.results is missing.
ResultsOf(result) == IF IsSupplied(result.results) THEN ValueOf(result.results) ELSE <<>>

\* search_new_awards, once client.searchTransactions has answered.
SearchNewAwards ==
    /\ upstream.kind = "transactions"
    /\ output.tool = "none"
    /\ LET newAwardsOnly == SelectSeq(ResultsOf(upstream), IsNewAward)
       IN  output' = [tool |-> "search_new_awards", total |-> Len(newAwardsOnly),
                      awards |-> transformTransactionResults(newAwardsOnly)]
    /\ UNCHANGED <<clientVars, filterVars, dateVars, upstream>>

\* search_awards with searchNewAwardsOnly, once client.searchTransactions has
\* answered.
SearchAwardsNewOnly ==
    /\ upstream.kind = "transactions"
    /\ output.tool = "none"
    /\ LET baseAwardsOnly == SelectSeq(ResultsOf(upstream), IsBaseAward)
       IN  output' = [tool |-> "search_awards", total |-> Len(baseAwardsOnly),
                      awards |-> transformTransactionResults(baseAwardsOnly)]
    /\ UNCHANGED <<clientVars, filterVars, dateVars, upstream>>

(***************************************************************************)
(* analyze_competition: recipients and market shares                       *)
(***************************************************************************)
DefaultLimit == 20

\* award["Recipient Name"] and award["Award Amount"] as upstream sends them;
\* Absent: null or missing.
RecipientNames == {Some("Acme"), Some("Bolt"), Absent}

AwardAmounts == {Some(0), Some(1), Some(2), Absent}

\* limit: z.number().min(1).max(100).optional()
Limits == {Absent, Some(1), Some(2)}

\* A raw award record (the fields the aggregation reads).
Award(id, name, amount) ==
    [field \in {"Award ID", "Recipient Name", "Award Amount"} |->
        IF field = "Award ID" THEN id
        ELSE IF field = "Recipient Name" THEN name ELSE amount]

\* result of client.searchAwards and the limit asked: results is missing, or a
\* page; the i-th award of a page has the i-th Award ID.
AwardPages ==
    { [kind |-> "awards", results |-> Absent, limit |-> limit] : limit \in Limits } \union
    UNION { { [kind |-> "awards",
               results |-> Some([i \in 1..n |->
                                   Award(Some(AwardIds[i]), names[i], amounts[i])]),
               limit |-> limit]
                : names \in [1..n -> RecipientNames],
                  amounts \in [1..n -> AwardAmounts], limit \in Limits }
            : n \in 0..MaxPage }

\* String(award["Recipient Name"] || "Unknown")
RecipientNameOf(award) ==
    IF TruthyString(award["Recipient Name"]) THEN ValueOf(award["Recipient Name"])
    ELSE "Unknown"

\* Number(award["Award Amount"]) || 0
AwardAmountOf(award) ==
    IF TruthyNumber(award["Award Amount"]) THEN ValueOf(award["Award Amount"]) ELSE 0

\* String(award["Award ID"] || "")
AwardIdOf(award) ==
    IF TruthyString(award["Award ID"]) THEN ValueOf(award["Award ID"]) ELSE ""

\* A map whose entry is set anew by each award of the name.
RECURSIVE recipientMapOverwriting(_, _)
recipientMapOverwriting(results, i) ==
    IF i = 0 THEN <<>>
    ELSE LET before == recipientMapOverwriting(results, i - 1)
             award  == results[i]
             name   == RecipientNameOf(award)
             entry  == [name |-> name, totalAmount |-> AwardAmountOf(award),
                        awardCount |-> 1, awards |-> <<AwardIdOf(award)>>]
         IN  IF \E k \in 1..Len(before) : before[k].name = name
             THEN [k \in 1..Len(before) |->
                      IF before[k].name = name THEN entry ELSE before[k]]
             ELSE Append(before, entry)

\* Array.from(recipientMap.values()) after the first i awards of the page.
RECURSIVE recipientMap(_, _)
recipientMap(results, i) ==
    IF i = 0 THEN <<>>
    ELSE LET before == recipientMap(results, i - 1)
             award  == results[i]
             name   == RecipientNameOf(award)
             amount == AwardAmountOf(award)
             id     == AwardIdOf(award)
             has    == \E k \in 1..Len(before) : before[k].name = name
             added  == IF has THEN before
                       ELSE Append(before, [name |-> name, totalAmount |-> 0,
                                            awardCount |-> 0, awards |-> <<>>])
         IN  [k \in 1..Len(added) |->
                 IF added[k].name = name
                 THEN [added[k] EXCEPT !.totalAmount = @ + amount, !.awardCount = @ + 1,
                                       !.awards = Append(@, id)]
                 ELSE added[k]]

\* .sort((a, b) => b.totalAmount - a.totalAmount): descending, stable.
RECURSIVE SortByTotalAmount(_)
SortByTotalAmount(recipients) ==
    IF recipients = <<>> THEN <<>>
    ELSE LET first  == Head(recipients)
             rest   == SortByTotalAmount(Tail(recipients))
             above  == Cardinality({k \in 1..Len(rest) :
                                       rest[k].totalAmount > first.totalAmount})
         IN  SubSeq(rest, 1, above) \o <<first>> \o SubSeq(rest, above + 1, Len(rest))

\* No truncation.
SliceAll(array, n) == array

\* .slice(0, n)
Slice(array, n) == SubSeq(array, 1, IF n < Len(array) THEN n ELSE Len(array))

\* .reduce((sum, r) => sum + r.totalAmount, 0)
RECURSIVE SumTotalAmount(_)
SumTotalAmount(recipients) ==
    IF recipients = <<>> THEN 0
    ELSE Head(recipients).totalAmount + SumTotalAmount(Tail(recipients))

\* x.toFixed(2) when x is NaN: the text "NaN".
NaN == [finite |-> FALSE, hundredths |-> 0]

\* ((totalAmount / totalMarketSize) * 100).toFixed(2), in hundredths of a
\* percent; amounts are not negative, so 0 / 0 is the only division by zero.
MarketSharePct(totalAmount, totalMarketSize) ==
    IF totalMarketSize = 0 THEN NaN
    ELSE [finite |-> TRUE,
          hundredths |-> (2 * 10000 * totalAmount + totalMarketSize)
                             \div (2 * totalMarketSize)]

\* avg_award_size and uei are left out.
transformCompetitionRecipient(recipient, totalMarketSize) ==
    [name |-> recipient.name,
     total_amount |-> recipient.totalAmount,
     award_count |-> recipient.awardCount,
     market_share_pct |-> MarketSharePct(recipient.totalAmount, totalMarketSize)]

\* analyze_competition, once client.searchAwards has answered. recipientMap
\* and topRecipients are the handler's locals, kept for observation.
AnalyzeCompetitionRecipients ==
    /\ upstream.kind = "awards"
    /\ output.tool = "none"
    /\ LET results == ResultsOf(upstream)
           limit == IF TruthyNumber(upstream.limit) THEN ValueOf(upstream.limit)
                    ELSE DefaultLimit
           recipients == recipientMap(results, Len(results))
           topRecipients == Slice(SortByTotalAmount(recipients), limit)
           totalMarketSize == SumTotalAmount(topRecipients)
       IN  output' = [tool |-> "analyze_competition",
                      recipientMap |-> recipients,
                      topRecipients |-> topRecipients,
                      total_market_size |-> totalMarketSize,
                      top_recipients |->
                          [i \in 1..Len(topRecipients) |->
                              transformCompetitionRecipient(topRecipients[i],
                                                            totalMarketSize)]]
    /\ UNCHANGED <<clientVars, filterVars, dateVars, upstream>>

\* Date.now() is far past requestDelay when the client is constructed
\* (lastRequestTime = 0), so the first throttleRequest never sleeps.
InitClient ==
    /\ client \in {USASpendingClient(config) : config \in Configs}
    /\ now = client.requestDelay
    /\ lastRequestTime = 0
    /\ calls = [c \in Calls |-> IdleCall]
    /\ prevDispatchAt = -1

\* One invocation at a time, every tool, every upstream answer.
SequentialHost ==
    [ calls |-> {1}, tools |-> Tools, responses |-> Responses, horizon |-> MaxTime,
      observeCeiling |-> TRUE ]

\* Concurrent invocations of a client method that arms its abort timer.
ConcurrentHost ==
    [ calls |-> Calls, tools |-> {"get_award_details"},
      responses |-> { [status |-> 200, body |-> BodyResults],
                      [status |-> 429, body |-> BodyEmpty],
                      [status |-> 500, body |-> BodyDetail] },
      horizon |-> ConcurrentMaxTime, observeCeiling |-> FALSE ]

Init ==
    /\ InitClient
    /\ host = SequentialHost
    /\ filterParams = NoParams
    /\ compiled = NotBuilt
    /\ sent = NotSent
    /\ request = NoRequest
    /\ resolved = NotResolved
    /\ upstream = NoUpstream
    /\ output = NoOutput

InitConcurrent ==
    /\ InitClient
    /\ host = ConcurrentHost
    /\ filterParams = NoParams
    /\ compiled = NotBuilt
    /\ sent = NotSent
    /\ request = NoRequest
    /\ resolved = NotResolved
    /\ upstream = NoUpstream
    /\ output = NoOutput

Next ==
    \/ \E c \in host.calls, tool \in host.tools, searchNewAwardsOnly \in BOOLEAN :
          Invoke(c, tool, searchNewAwardsOnly)
    \/ \E c \in Calls : ThrottleWake(c)
    \/ \E c \in Calls, resp \in host.responses : Respond(c, resp)
    \/ \E c \in Calls, error \in FetchFailures : FetchFail(c, error)
    \/ \E c \in Calls : TimeoutFire(c)
    \/ \E c \in Calls : BackoffWake(c)
    \/ \E c \in Calls, resp \in host.responses : RespondDirect(c, resp)
    \/ \E c \in Calls, error \in FetchFailures : FetchFailDirect(c, error)
    \/ \E c \in Calls : Return(c)
    \/ Tick

Spec == Init /\ [][Next]_vars

\* The client's steps alone: no handler of the concurrent host calls fetch itself.
NextClient ==
    \/ \E c \in host.calls, tool \in host.tools, searchNewAwardsOnly \in BOOLEAN :
          Invoke(c, tool, searchNewAwardsOnly)
    \/ \E c \in Calls : ThrottleWake(c)
    \/ \E c \in Calls, resp \in host.responses : Respond(c, resp)
    \/ \E c \in Calls, error \in FetchFailures : FetchFail(c, error)
    \/ \E c \in Calls : TimeoutFire(c)
    \/ \E c \in Calls : BackoffWake(c)
    \/ \E c \in Calls : Return(c)
    \/ Tick

SpecConcurrent == InitConcurrent /\ [][NextClient]_vars

\* Two concurrent invocations, of a client method with an abort timer and of
\* one without, with the time for one to dispatch, be rate limited, back off
\* and meet the other's dispatch in its throttle sleep.
RetryHost ==
    [ConcurrentHost EXCEPT !.calls = {1, 2},
                           !.tools = {"get_award_details", "search_awards"},
                           !.horizon = RetryMaxTime]

InitRetrySpacing ==
    /\ InitClient
    /\ host = RetryHost
    /\ filterParams = NoParams
    /\ compiled = NotBuilt
    /\ sent = NotSent
    /\ request = NoRequest
    /\ resolved = NotResolved
    /\ upstream = NoUpstream
    /\ output = NoOutput

SpecRetrySpacing == InitRetrySpacing /\ [][NextClient]_vars

\* One invocation at a time of a client method with an abort timer and of one
\* without.
TerminationHost ==
    [ calls |-> {1}, tools |-> {"get_award_details", "search_awards"},
      responses |-> { [status |-> 200, body |-> BodyResults],
                      [status |-> 429, body |-> BodyEmpty],
                      [status |-> 500, body |-> BodyDetail] },
      horizon |-> MaxTime, observeCeiling |-> FALSE ]

InitTermination ==
    /\ InitClient
    /\ host = TerminationHost
    /\ filterParams = NoParams
    /\ compiled = NotBuilt
    /\ sent = NotSent
    /\ request = NoRequest
    /\ resolved = NotResolved
    /\ upstream = NoUpstream
    /\ output = NoOutput

NextTermination == NextClient \/ Elapse

\* The event loop runs a timer that is due and a handler whose await has
\* settled; every request sent meets a response or a failure.
FairTermination ==
    /\ WF_vars(Tick)
    /\ WF_vars(Elapse)
    /\ \A c \in Calls :
          /\ WF_vars(ThrottleWake(c))
          /\ WF_vars(BackoffWake(c))
          /\ WF_vars(TimeoutFire(c))
          /\ WF_vars(Settle(c))
          /\ WF_vars(Return(c))

SpecTermination == InitTermination /\ [][NextTermination]_vars /\ FairTermination

\* The caller compiles the same FilterParams once more.
BuildAgain(today) ==
    /\ compiled.built
    /\ ~compiled.again.built
    /\ compiled' = [compiled EXCEPT !.again =
                       [built |-> TRUE, today |-> today,
                        filters |-> buildAwardFilters(filterParams, today)]]
    /\ UNCHANGED <<clientVars, filterParams, sent, dateVars, resultVars>>

\* The dates handed on as they were given.
AnalyzeCompetitionDatesAsGiven(params, today) ==
    [activityStartDate |-> params.activityStartDate,
     activityEndDate |-> params.activityEndDate]

\* analyze_competition: params.activityStartDate || (one year ago),
\* params.activityEndDate || (today), both by toISOString().split('T')[0].
AnalyzeCompetitionDates(params, today) ==
    [activityStartDate |->
         IF TruthyString(params.activityStartDate) THEN params.activityStartDate
         ELSE Some(ISODate(OneYearBefore(today))),
     activityEndDate |->
         IF TruthyString(params.activityEndDate) THEN params.activityEndDate
         ELSE Some(ISODate(today))]

\* analyze_competition, up to its client.searchAwards call: the filters sent.
AnalyzeCompetitionFilters(today) ==
    /\ sent.tool = "none"
    /\ LET dates == AnalyzeCompetitionDates(filterParams, today)
           passed == [NoParams EXCEPT
                         !.keywords = filterParams.keywords,
                         !.agencyName = filterParams.agencyName,
                         !.naicsCodes = filterParams.naicsCodes,
                         !.pscCodes = filterParams.pscCodes,
                         !.activityStartDate = dates.activityStartDate,
                         !.activityEndDate = dates.activityEndDate,
                         !.minAmount = filterParams.minAmount]
       IN  sent' = [tool |-> "analyze_competition", today |-> today,
                    filters |-> buildAwardFilters(passed, today)]
    /\ UNCHANGED <<clientVars, filterParams, compiled, dateVars, resultVars>>

\* search_awards, up to its client call: every parameter is passed on as given.
SearchAwardsFilters(today) ==
    /\ sent.tool = "none"
    /\ sent' = [tool |-> "search_awards", today |-> today,
                filters |-> buildAwardFilters(filterParams, today)]
    /\ UNCHANGED <<clientVars, filterParams, compiled, dateVars, resultVars>>

\* The values a field of FilterParams takes.
FieldValues(field) ==
    {Absent} \union {Some(Variant(field, i)) : i \in 1..NumVariants(field)}

\* The caller compiles, on the same day, the FilterParams with one field changed.
BuildChanged(field, value) ==
    /\ compiled.built
    /\ ~compiled.again.built
    /\ compiled.changed.field = "none"
    /\ value # filterParams[field]
    /\ compiled' = [compiled EXCEPT !.changed =
                       [field |-> field, value |-> value,
                        filters |-> buildAwardFilters([filterParams EXCEPT ![field] = value],
                                                      compiled.today)]]
    /\ UNCHANGED <<clientVars, filterParams, sent, dateVars, resultVars>>

InitFilter ==
    /\ InitClient
    /\ host = SequentialHost
    /\ filterParams \in FilterParamSets
    /\ compiled = NotBuilt
    /\ sent = NotSent
    /\ request = NoRequest
    /\ resolved = NotResolved
    /\ upstream = NoUpstream
    /\ output = NoOutput

NextFilter ==
    \/ \E today \in Todays : Build(today)
    \/ \E today \in Todays : BuildAgain(today)

SpecFilter == InitFilter /\ [][NextFilter]_vars

NextToolFilters ==
    \/ \E today \in Todays : AnalyzeCompetitionFilters(today)
    \/ \E today \in Todays : SearchAwardsFilters(today)

SpecToolFilters == InitFilter /\ [][NextToolFilters]_vars

NextFrame ==
    \/ \E today \in Todays : Build(today)
    \/ \E field \in FilterFields : \E value \in FieldValues(field) :
          BuildChanged(field, value)

SpecFrame == InitFilter /\ [][NextFrame]_vars

InitDates ==
    /\ InitClient
    /\ host = SequentialHost
    /\ filterParams = NoParams
    /\ compiled = NotBuilt
    /\ sent = NotSent
    /\ request \in DateRequests
    /\ resolved = NotResolved
    /\ upstream = NoUpstream
    /\ output = NoOutput

NextDates ==
    \/ ResolveDate
    \/ ResolveRange
    \/ SearchAwardsDates

SpecDates == InitDates /\ [][NextDates]_vars

InitFiscal ==
    /\ InitClient
    /\ host = SequentialHost
    /\ filterParams = NoParams
    /\ compiled = NotBuilt
    /\ sent = NotSent
    /\ request \in {[NoRequest EXCEPT !.today = today] : today \in FiscalTodays}
    /\ resolved = NotResolved
    /\ upstream = NoUpstream
    /\ output = NoOutput

NextFiscal == CurrentFiscalYear \/ FiscalYearRange

SpecFiscal == InitFiscal /\ [][NextFiscal]_vars

InitNewAwards ==
    /\ InitClient
    /\ host = SequentialHost
    /\ filterParams = NoParams
    /\ compiled = NotBuilt
    /\ sent = NotSent
    /\ request = NoRequest
    /\ resolved = NotResolved
    /\ upstream \in TransactionPages
    /\ output = NoOutput

NextNewAwards == SearchNewAwards \/ SearchAwardsNewOnly

SpecNewAwards == InitNewAwards /\ [][NextNewAwards]_vars

InitCompetition ==
    /\ InitClient
    /\ host = SequentialHost
    /\ filterParams = NoParams
    /\ compiled = NotBuilt
    /\ sent = NotSent
    /\ request = NoRequest
    /\ resolved = NotResolved
    /\ upstream \in AwardPages
    /\ output = NoOutput

NextCompetition == AnalyzeCompetitionRecipients

SpecCompetition == InitCompetition /\ [][NextCompetition]_vars

InitProjection ==
    /\ InitClient
    /\ host = SequentialHost
    /\ filterParams = NoParams
    /\ compiled = NotBuilt
    /\ sent = NotSent
    /\ request = NoRequest
    /\ resolved = NotResolved
    /\ upstream \in RecordPages
    /\ output = NoOutput

NextProjection == TransformAward \/ TransformTransaction \/ TransformRecipient

SpecProjection == InitProjection /\ [][NextProjection]_vars

(***************************************************************************)
(* Properties                                                              *)
(***************************************************************************)
InFlight(c) == calls[c].pc \in {"throttleSleep", "fetching", "backoff"}

Done(c) == calls[c].pc = "done"

MetResponse(c) == calls[c].cause.kind = "response"

MetError(c) == calls[c].cause.kind = "error"

\* C1: a call issued after an earlier request was dispatched has its own first
\* request dispatched at least requestDelay after that one; the delay is 100
\* when the config gives none.
C1_BackToBackSpacing ==
    /\ \A c \in Calls :
          calls[c].firstGap # -1 => calls[c].firstGap >= client.requestDelay
    /\ USASpendingClient(EmptyConfig).requestDelay = 100

\* A second call is in flight beside the first, dispatched exactly requestDelay
\* after it.
C1_Witness ==
    \E c, d \in Calls :
        /\ c # d
        /\ calls[c].pc = "fetching"
        /\ calls[d].pc = "fetching"
        /\ calls[d].firstGap = client.requestDelay

\* C2: with calls running concurrently, every request the client dispatches
\* starts at least requestDelay after the request dispatched before it.
C2_GlobalSpacing ==
    [][ \A c \in Calls :
          ( /\ calls[c].pc # "fetching"
            /\ calls'[c].pc = "fetching"
            /\ calls'[c].via = "client"
            /\ prevDispatchAt # -1 )
          => now - prevDispatchAt >= client.requestDelay ]_vars

\* C3: every request in flight during a tool invocation was dispatched by the
\* client's fetchWithRetry.
C3_ClientIsSoleDispatcher ==
    \A c \in Calls : calls[c].pc = "fetching" => calls[c].via = "client"

\* C4: after a 429 the client sleeps retryDelay * 2^attempt and retries only
\* while attempt < maxRetries; a call that ends on a 429 has used all maxRetries
\* retries and returns the rate-limit error that names maxRetries.  The
\* defaults are 2 retries and a base of 1000.
C4_RateLimitRetry ==
    /\ \A c \in Calls :
          /\ calls[c].attempt <= client.maxRetries
          /\ (calls[c].pc = "backoff" /\ MetResponse(c)) =>
                /\ calls[c].cause.resp.status = 429
                /\ calls[c].attempt < client.maxRetries
                /\ calls[c].wakeAt - calls[c].sleepFrom
                      = client.retryDelay * 2 ^ calls[c].attempt
          /\ (Done(c) /\ MetResponse(c) /\ calls[c].cause.resp.status = 429) =>
                /\ calls[c].via = "client" => calls[c].attempt = client.maxRetries
                /\ calls[c].via = "client" =>
                      calls[c].payload =
                         [ head |-> "Error:",
                           msg |-> <<"USASpending API rate limit exceeded after",
                                     ToString(client.maxRetries),
                                     "retries. Please try again later.">> ]
    /\ USASpendingClient(EmptyConfig).maxRetries = 2
    /\ USASpendingClient(EmptyConfig).retryDelay = 1000

\* A call ended on its third 429, after two retries.
C4_Witness ==
    \E c \in Calls :
        /\ Done(c)
        /\ calls[c].via = "client"
        /\ MetResponse(c)
        /\ calls[c].cause.resp.status = 429
        /\ calls[c].attempt = 2
        /\ BeginsWithError(calls[c].payload)

C6_EveryOperationTimesOut ==
    \A c \in Calls :
        (calls[c].pc = "fetching" /\ calls[c].via = "client") =>
            now <= calls[c].ceiling

\* The message the spec expects for a response body.
ExpectedDetail(resp) ==
    LET parsed == JSONparse(resp.body)
    IN  IF parsed.ok /\ parsed.type = "object" /\ parsed.hasDetail THEN parsed.detail
        ELSE IF resp.body # "" THEN resp.body
        ELSE StatusText(resp.status)

\* C7: a client call ended by a non-2xx response (not a retried 429, not a 404
\* mapped to null) reports the status and the upstream detail, or the raw body
\* (the status text when the body is empty) when the body is not a JSON object
\* with a detail.
C7_ErrorCarriesDetail ==
    \A c \in Calls :
        ( /\ Done(c)
          /\ calls[c].via = "client"
          /\ MetResponse(c)
          /\ ~Ok(calls[c].cause.resp.status)
          /\ calls[c].cause.resp.status # 429
          /\ ~(calls[c].cause.resp.status = 404
               /\ calls[c].op \in {"getAwardDetails", "getRecipientDetails"}) )
        => calls[c].payload =
              [ head |-> "Error:",
                msg |-> <<"USASpending API error",
                          ToString(calls[c].cause.resp.status),
                          ExpectedDetail(calls[c].cause.resp)>> ]

\* What get_award_details / get_recipient_details count as a failed call.
DetailsCallFailed(c) ==
    \/ MetError(c)
    \/ /\ MetResponse(c)
       /\ ~Ok(calls[c].cause.resp.status)
       /\ calls[c].cause.resp.status # 404
    \/ /\ MetResponse(c)
       /\ Ok(calls[c].cause.resp.status)
       /\ ~JSONparse(calls[c].cause.resp.body).ok

\* C8: get_award_details and get_recipient_details return their "not found"
\* text, which does not begin with "Error:", on a 404, and the error payload on
\* every other failure; neither raises.
C8_NotFoundBoundary ==
    \A c \in Calls :
        (Done(c) /\ calls[c].tool \in {"get_award_details", "get_recipient_details"}) =>
            /\ calls[c].outcome = "returned"
            /\ (MetResponse(c) /\ calls[c].cause.resp.status = 404) =>
                  /\ ~BeginsWithError(calls[c].payload)
                  /\ calls[c].payload.head =
                        (IF calls[c].tool = "get_award_details"
                         THEN "Award with ID" ELSE "Recipient with hash")
            /\ DetailsCallFailed(c) => BeginsWithError(calls[c].payload)

\* get_recipient_details answered a 404 with its "not found" text.
C8_Witness ==
    \E c \in Calls :
        /\ Done(c)
        /\ calls[c].tool = "get_recipient_details"
        /\ MetResponse(c)
        /\ calls[c].cause.resp.status = 404
        /\ calls[c].payload.head = "Recipient with hash"

\* C9: every tool invocation ends with the handler returning one text payload,
\* whatever the fetch met; no exception leaves the handler.
C9_HandlersTotal ==
    \A c \in Calls :
        Done(c) =>
            /\ calls[c].outcome = "returned"
            /\ calls[c].payload # NoPayload
            /\ calls[c].payload.head # ""

\* A handler returned the error payload after the client ran out of retries on
\* network failures.
C9_Witness ==
    \E c \in Calls :
        /\ Done(c)
        /\ calls[c].tool = "analyze_competition"
        /\ MetError(c)
        /\ calls[c].cause.error = NetworkError
        /\ calls[c].attempt = client.maxRetries
        /\ calls[c].outcome = "returned"
        /\ BeginsWithError(calls[c].payload)


\* The keys a compiled filter may hold.
CompiledKeys ==
    { "award_type_codes", "keywords", "time_period", "recipient_search_text",
      "agencies", "naics_codes", "psc_codes", "award_amounts",
      "place_of_performance_locations", "set_aside_type_codes",
      "extent_competed_type_codes", "contract_pricing_type_codes" }

SuppliedArray(o) == Len(o) = 1 /\ o[1] # <<>>

SuppliedString(o) == Len(o) = 1 /\ o[1] # ""

\* C10: buildAwardFilters emits each of the nine keys exactly when its source
\* parameter is supplied and non-empty, and emits no key outside the fixed set.
C10_KeysFollowSources ==
    compiled.built =>
        LET keys == DOMAIN compiled.filters
        IN  /\ keys \subseteq CompiledKeys
            /\ "keywords" \in keys <=> SuppliedArray(filterParams.keywords)
            /\ "recipient_search_text" \in keys
                  <=> SuppliedString(filterParams.recipientName)
            /\ "agencies" \in keys <=> SuppliedString(filterParams.agencyName)
            /\ "naics_codes" \in keys <=> SuppliedArray(filterParams.naicsCodes)
            /\ "psc_codes" \in keys <=> SuppliedArray(filterParams.pscCodes)
            /\ "place_of_performance_locations" \in keys
                  <=> SuppliedString(filterParams.state)
            /\ "set_aside_type_codes" \in keys
                  <=> SuppliedArray(filterParams.setAsideTypes)
            /\ "extent_competed_type_codes" \in keys
                  <=> SuppliedArray(filterParams.extentCompeted)
            /\ "contract_pricing_type_codes" \in keys
                  <=> SuppliedArray(filterParams.contractPricingTypes)

\* A supplied but empty naicsCodes is left out while a non-empty agencyName is
\* compiled.
C10_Witness ==
    /\ compiled.built
    /\ filterParams.naicsCodes = <<<<>>>>
    /\ "naics_codes" \notin DOMAIN compiled.filters
    /\ filterParams.agencyName = <<"Acme">>
    /\ "agencies" \in DOMAIN compiled.filters

\* C11: no key of a compiled filter holds an empty array; award_type_codes is
\* always present, and holds the four default codes when awardTypeCodes is absent
\* or an empty array.
C11_NoEmptyArray ==
    compiled.built =>
        /\ "award_type_codes" \in DOMAIN compiled.filters
        /\ \A k \in DOMAIN compiled.filters : Len(compiled.filters[k]) > 0
        /\ ~SuppliedArray(filterParams.awardTypeCodes) =>
              compiled.filters["award_type_codes"] = <<"A", "B", "C", "D">>

(***************************************************************************)
(* The request body: JSON.stringify of the search parameters               *)
(***************************************************************************)
\* JSON.stringify of an object: a property whose value is undefined is dropped.
JSONstringifyObject(obj) ==
    [k \in {j \in DOMAIN obj : IsSupplied(obj[j])} |-> ValueOf(obj[k])]

\* C12: with neither amount bound the compiled filter has no award_amounts; with
\* one at least, award_amounts is one element that carries, as sent upstream,
\* lower_bound exactly when minAmount was provided and upper_bound exactly when
\* maxAmount was, each with the provided value (0 included).
C12_AmountBounds ==
    compiled.built =>
        LET keys == DOMAIN compiled.filters
            hasMin == Len(filterParams.minAmount) = 1
            hasMax == Len(filterParams.maxAmount) = 1
        IN  /\ (~hasMin /\ ~hasMax) => "award_amounts" \notin keys
            /\ (hasMin \/ hasMax) =>
                  /\ "award_amounts" \in keys
                  /\ Len(compiled.filters["award_amounts"]) = 1
                  /\ LET body == JSONstringifyObject(compiled.filters["award_amounts"][1])
                     IN  /\ DOMAIN body \subseteq {"lower_bound", "upper_bound"}
                         /\ "lower_bound" \in DOMAIN body <=> hasMin
                         /\ "upper_bound" \in DOMAIN body <=> hasMax
                         /\ hasMin => body["lower_bound"] = filterParams.minAmount[1]
                         /\ hasMax => body["upper_bound"] = filterParams.maxAmount[1]

\* Only minAmount is provided, as 0: the element sent has lower_bound 0 and no
\* upper_bound.
C12_Witness ==
    /\ compiled.built
    /\ filterParams.minAmount = <<0>>
    /\ filterParams.maxAmount = <<>>
    /\ "award_amounts" \in DOMAIN compiled.filters
    /\ DOMAIN JSONstringifyObject(compiled.filters["award_amounts"][1]) = {"lower_bound"}

\* Today and the day one year before it, as the YYYY-MM-DD text expected.
TodayText(today) ==
    CASE today = [y |-> 2024, m |-> 2, d |-> 29]  -> "2024-02-29"
      [] today = [y |-> 2025, m |-> 11, d |-> 4]  -> "2025-11-04"
      [] today = [y |-> 2023, m |-> 12, d |-> 31] -> "2023-12-31"
      [] OTHER                                    -> "unknown"

YearAgoText(today) ==
    CASE today = [y |-> 2024, m |-> 2, d |-> 29]  -> "2023-03-01"
      [] today = [y |-> 2025, m |-> 11, d |-> 4]  -> "2024-11-04"
      [] today = [y |-> 2023, m |-> 12, d |-> 31] -> "2022-12-31"
      [] OTHER                                    -> "unknown"

\* C13: without activityStartDate and activityEndDate the compiled filter has no
\* time_period; with either, time_period is one range whose supplied bound is
\* passed through, whose missing start is one year before today and whose
\* missing end is today.
C13_TimePeriod ==
    compiled.built =>
        LET keys == DOMAIN compiled.filters
            hasStart == SuppliedString(filterParams.activityStartDate)
            hasEnd == SuppliedString(filterParams.activityEndDate)
        IN  /\ (~hasStart /\ ~hasEnd) => "time_period" \notin keys
            /\ (hasStart \/ hasEnd) =>
                  /\ "time_period" \in keys
                  /\ Len(compiled.filters["time_period"]) = 1
                  /\ LET range == compiled.filters["time_period"][1]
                     IN  /\ DOMAIN range = {"start_date", "end_date"}
                         /\ range.start_date =
                               (IF hasStart THEN filterParams.activityStartDate[1]
                                ELSE YearAgoText(compiled.today))
                         /\ range.end_date =
                               (IF hasEnd THEN filterParams.activityEndDate[1]
                                ELSE TodayText(compiled.today))

\* Only the end is supplied, on Feb 29: the start is synthesized.
C13_Witness ==
    /\ compiled.built
    /\ compiled.today = [y |-> 2024, m |-> 2, d |-> 29]
    /\ filterParams.activityStartDate = <<>>
    /\ filterParams.activityEndDate = <<"2024-01-15">>
    /\ compiled.filters["time_period"]
          = <<[start_date |-> "2023-03-01", end_date |-> "2024-01-15"]>>

\* C14: in search_awards a fiscalYear decides time_period whatever dateRange,
\* startDate and endDate are; without one, a dateRange decides it whatever
\* startDate and endDate are; without both, startDate / endDate decide it.  (A
\* fiscalYear of 0 and an empty dateRange count as not supplied.)
C14_DatePrecedence ==
    resolved.by = "search_awards" =>
        LET hasFiscalYear == request.fiscalYear = <<2024>>
            hasDateRange == Len(request.dateRange) = 1 /\ request.dateRange[1] # ""
            hasExplicit == \/ SuppliedString(request.startDate)
                           \/ SuppliedString(request.endDate)
            period == [start_date |-> resolved.start_date, end_date |-> resolved.end_date]
        IN  /\ hasFiscalYear =>
                  /\ resolved.has_period
                  /\ period = [start_date |-> "2023-10-01", end_date |-> "2024-09-30"]
            /\ (~hasFiscalYear /\ hasDateRange) =>
                  LET range == parseDateRange(request.dateRange[1], request.today)
                  IN  /\ resolved.has_period
                      /\ period = [start_date |-> range.start_date,
                                   end_date |-> range.end_date]
            /\ (~hasFiscalYear /\ ~hasDateRange /\ hasExplicit) =>
                  LET explicit == ExplicitPeriod(request)
                  IN  /\ resolved.has_period
                      /\ period = [start_date |-> explicit.start_date,
                                   end_date |-> explicit.end_date]
            /\ (~hasFiscalYear /\ ~hasDateRange /\ ~hasExplicit) => ~resolved.has_period

\* All three mechanisms are supplied and the fiscal year's range is sent.
C14_Witness ==
    /\ resolved.by = "search_awards"
    /\ request.fiscalYear = <<2024>>
    /\ request.dateRange = <<"last 30 days">>
    /\ request.startDate = <<"2024-01-15">>
    /\ request.endDate = <<"today">>
    /\ resolved.start_date = "2023-10-01"
    /\ resolved.end_date = "2024-09-30"

\* C15: two compilations of the same FilterParams give the same filter when
\* today is the same, and whatever today is unless exactly one of the two dates
\* is left to be synthesized from it.
C15_SameOutputTwice ==
    compiled.again.built =>
        LET oneDateDefaulted ==
                SuppliedString(filterParams.activityStartDate)
                    # SuppliedString(filterParams.activityEndDate)
        IN  /\ compiled.again.today = compiled.today =>
                  compiled.again.filters = compiled.filters
            /\ ~oneDateDefaulted => compiled.again.filters = compiled.filters

\* Both dates are supplied and the second compilation, on another day, gives the
\* same filter.
C15_Witness ==
    /\ compiled.again.built
    /\ compiled.again.today # compiled.today
    /\ filterParams.activityStartDate = <<"2024-01-15">>
    /\ filterParams.activityEndDate = <<"2024-01-15">>
    /\ compiled.again.filters = compiled.filters
    /\ "time_period" \in DOMAIN compiled.filters

\* The day n days before today, as the YYYY-MM-DD text expected.
DaysBeforeText(today, n) ==
    CASE today = [y |-> 2024, m |-> 3, d |-> 15] ->
            (CASE n = 0 -> "2024-03-15" [] n = 1 -> "2024-03-14"
               [] n = 7 -> "2024-03-08" [] n = 30 -> "2024-02-14" [] OTHER -> "unknown")
      [] today = [y |-> 2024, m |-> 3, d |-> 31] ->
            (CASE n = 0 -> "2024-03-31" [] n = 1 -> "2024-03-30"
               [] n = 7 -> "2024-03-24" [] n = 30 -> "2024-03-01" [] OTHER -> "unknown")
      [] today = [y |-> 2024, m |-> 2, d |-> 29] ->
            (CASE n = 0 -> "2024-02-29" [] n = 1 -> "2024-02-28"
               [] n = 7 -> "2024-02-22" [] n = 30 -> "2024-01-30" [] OTHER -> "unknown")
      [] today = [y |-> 2025, m |-> 1, d |-> 1] ->
            (CASE n = 0 -> "2025-01-01" [] n = 1 -> "2024-12-31"
               [] n = 7 -> "2024-12-25" [] n = 30 -> "2024-12-02" [] OTHER -> "unknown")
      [] OTHER -> "unknown"

\* The N of a "last N days"-class phrase (-1: another phrase).
LastDaysOf(phrase) ==
    CASE phrase \in {"last 30 days", "Last 30 Days "} -> 30
      [] phrase \in {"last 7 days", "last week"}      -> 7
      [] OTHER                                        -> -1

\* C16: parseDateRange of a "last N days"-class phrase ends today and starts N
\* days before today ("last 30 days" on 2024-03-15 is 2024-02-14 to 2024-03-15);
\* "yesterday" and "today" give a range whose start is its end.
C16_LastNDays ==
    resolved.by = "parseDateRange" =>
        LET phrase == request.dateRange[1]
            range == [start_date |-> resolved.start_date, end_date |-> resolved.end_date]
        IN  /\ LastDaysOf(phrase) # -1 =>
                  /\ range = [start_date |-> DaysBeforeText(request.today, LastDaysOf(phrase)),
                              end_date |-> DaysBeforeText(request.today, 0)]
                  /\ ~resolved.warned
            /\ phrase = "yesterday" =>
                  range = [start_date |-> DaysBeforeText(request.today, 1),
                           end_date |-> DaysBeforeText(request.today, 1)]
            /\ phrase = "today" =>
                  range = [start_date |-> DaysBeforeText(request.today, 0),
                           end_date |-> DaysBeforeText(request.today, 0)]

\* The spec's example: "last 30 days" on 2024-03-15.
C16_Witness ==
    /\ resolved.by = "parseDateRange"
    /\ request.today = [y |-> 2024, m |-> 3, d |-> 15]
    /\ request.dateRange = <<"last 30 days">>
    /\ resolved.start_date = "2024-02-14"
    /\ resolved.end_date = "2024-03-15"

\* Inputs no branch of parseNaturalDate reads, the Date constructor included.
UnparseableDates == {"sometime soon", ""}

\* Inputs that are none of parseDateRange's phrases.
UnparseableRanges ==
    {"3 days ago", "2 years ago", "2024-01-15", "January 15, 2024", "sometime soon", ""}

\* What the caller of parseNaturalDate / parseDateRange receives: the string,
\* or the { start_date, end_date } object. console.warn is not part of it.
ReturnValue(r) ==
    IF "value" \in DOMAIN r THEN [value |-> r.value]
    ELSE [start_date |-> r.start_date, end_date |-> r.end_date]

\* C17: on unparseable input parseNaturalDate returns today and parseDateRange
\* the last 30 days, without throwing, and the caller is given a warning with
\* the result, so that what it receives for a guess differs from what it
\* receives when the same date or range is asked for explicitly.
C17_GuessToldApart ==
    /\ resolved.by = "parseNaturalDate" /\ request.startDate[1] \in UnparseableDates =>
          /\ resolved.value = DaysBeforeText(request.today, 0)
          /\ [value |-> resolved.value]
                 # ReturnValue(parseNaturalDate("today", request.today))
    /\ resolved.by = "parseDateRange" /\ request.dateRange[1] \in UnparseableRanges =>
          /\ resolved.start_date = DaysBeforeText(request.today, 30)
          /\ resolved.end_date = DaysBeforeText(request.today, 0)
          /\ [start_date |-> resolved.start_date, end_date |-> resolved.end_date]
                 # ReturnValue(parseDateRange("last 30 days", request.today))

\* A record whose modification number is "0" (blanks around it aside) or is
\* empty: an empty string, null, or no such field.
IsUnmodified(tx) ==
    tx["Modification Number"] \in {Some("0"), Some(" 0 "), Some(""), Absent}

\* C18: the "new awards only" post-filter (search_new_awards, and search_awards
\* with searchNewAwardsOnly) keeps a fetched transaction exactly when its
\* modification number is "0" or empty, "1" being excluded, and the output lists
\* the kept records, normalized, in upstream order.
C18_KeepsUnmodified ==
    output.tool \in {"search_new_awards", "search_awards"} =>
        LET kept == SelectSeq(ResultsOf(upstream), IsUnmodified)
        IN  /\ output.awards = transformTransactionResults(kept)
            /\ output.total = Len(kept)
            /\ \A i \in 1..Len(output.awards) :
                   output.awards[i].modificationNumber # Some("1")

\* The sum of the market_share_pct of the recipients returned, in hundredths.
RECURSIVE SumMarketSharePct(_)
SumMarketSharePct(recipients) ==
    IF recipients = <<>> THEN 0
    ELSE Head(recipients).market_share_pct.hundredths
             + SumMarketSharePct(Tail(recipients))

\* C19: for every page analyze_competition fetches, each returned recipient's
\* market_share_pct is its total over the sum of the returned (truncated top-N)
\* totals, and the returned market_share_pct values sum to 100% within rounding
\* (half a hundredth for each value).
C19_SharesSumTo100 ==
    output.tool = "analyze_competition" /\ output.top_recipients # <<>> =>
        LET top == output.top_recipients
        IN  /\ \A i \in 1..Len(top) :
                   /\ top[i].market_share_pct.finite
                   /\ top[i].market_share_pct.hundredths * 2 * SumTotalAmount(
                          [k \in 1..Len(top) |-> [totalAmount |-> top[k].total_amount]])
                        \in (2 * 10000 * top[i].total_amount - SumTotalAmount(
                               [k \in 1..Len(top) |-> [totalAmount |-> top[k].total_amount]]))
                            .. (2 * 10000 * top[i].total_amount + SumTotalAmount(
                               [k \in 1..Len(top) |-> [totalAmount |-> top[k].total_amount]]))
            /\ 2 * SumMarketSharePct(top) \in (2 * 10000 - Len(top)) .. (2 * 10000 + Len(top))

\* C20: every filter analyze_competition sends upstream has a time_period: the
\* trailing year ending today when no date is supplied, else the supplied
\* bounds with a missing start taken one year back and a missing end today;
\* search_awards with no dates sends no time_period.
C20_MandatoryTimePeriod ==
    LET hasStart == SuppliedString(filterParams.activityStartDate)
        hasEnd == SuppliedString(filterParams.activityEndDate)
    IN  /\ sent.tool = "analyze_competition" =>
              /\ "time_period" \in DOMAIN sent.filters
              /\ sent.filters["time_period"] =
                    << [start_date |-> IF hasStart THEN filterParams.activityStartDate[1]
                                       ELSE YearAgoText(sent.today),
                        end_date |-> IF hasEnd THEN filterParams.activityEndDate[1]
                                     ELSE TodayText(sent.today)] >>
        /\ sent.tool = "search_awards" /\ ~hasStart /\ ~hasEnd =>
              "time_period" \notin DOMAIN sent.filters

\* analyze_competition without dates on 2025-11-04 sends the year up to that day.
C20_Witness ==
    /\ sent.tool = "analyze_competition"
    /\ sent.today = [y |-> 2025, m |-> 11, d |-> 4]
    /\ filterParams.activityStartDate = Absent
    /\ filterParams.activityEndDate = Absent
    /\ sent.filters["time_period"] =
          << [start_date |-> "2024-11-04", end_date |-> "2025-11-04"] >>

\* The records of a page under one recipient name, in page order.
RecordsOf(page, name) ==
    SelectSeq(page, LAMBDA award : RecipientNameOf(award) = name)

\* The sum of the amounts of a sequence of records.
RECURSIVE SumAwardAmounts(_)
SumAwardAmounts(records) ==
    IF records = <<>> THEN 0
    ELSE AwardAmountOf(Head(records)) + SumAwardAmounts(Tail(records))

\* C21: analyze_competition makes one aggregate per distinct recipient name,
\* holding the sum of that name's amounts, the count of its awards and the list
\* of its award ids; it returns the aggregates in non-increasing order of total
\* amount, at most limit of them (default 20), those with the largest totals.
C21_AggregateSortTruncate ==
    output.tool = "analyze_competition" =>
        LET page  == ResultsOf(upstream)
            names == {RecipientNameOf(page[i]) : i \in 1..Len(page)}
            all   == output.recipientMap
            top   == output.topRecipients
            limit == IF upstream.limit \in {Absent, Some(0)} THEN 20
                     ELSE upstream.limit[1]
        IN  /\ {all[k].name : k \in 1..Len(all)} = names
            /\ Len(all) = Cardinality(names)
            /\ \A k \in 1..Len(all) :
                   LET records == RecordsOf(page, all[k].name)
                   IN  /\ all[k].totalAmount = SumAwardAmounts(records)
                       /\ all[k].awardCount = Len(records)
                       /\ all[k].awards = [i \in 1..Len(records) |-> AwardIdOf(records[i])]
            /\ \A i \in 1..Len(top) : \E k \in 1..Len(all) : top[i] = all[k]
            /\ \A i, j \in 1..Len(top) : i < j => top[i].totalAmount >= top[j].totalAmount
            /\ Len(top) = (IF limit < Len(all) THEN limit ELSE Len(all))
            /\ \A k \in 1..Len(all) :
                   (\A i \in 1..Len(top) : top[i] # all[k]) =>
                       \A i \in 1..Len(top) : top[i].totalAmount >= all[k].totalAmount
            /\ Len(output.top_recipients) = Len(top)
            /\ \A i \in 1..Len(top) :
                   /\ output.top_recipients[i].name = top[i].name
                   /\ output.top_recipients[i].total_amount = top[i].totalAmount
                   /\ output.top_recipients[i].award_count = top[i].awardCount

\* Three awards of two recipients, the later recipient with the larger total,
\* limit 1: the one returned is the later recipient.
C21_Witness ==
    /\ output.tool = "analyze_competition"
    /\ upstream.limit = Some(1)
    /\ Len(output.recipientMap) = 2
    /\ output.recipientMap[1].name = "Acme"
    /\ output.recipientMap[1].totalAmount = 1
    /\ output.recipientMap[2] =
          [name |-> "Bolt", totalAmount |-> 3, awardCount |-> 2, awards |-> <<"A2", "A3">>]
    /\ output.topRecipients = <<output.recipientMap[2]>>

\* The upstream key each normalized field is read from ("placeOfPerformance."
\* heads the fields of the nested object).
UpstreamKeyOf(tool) ==
    CASE tool = "transformAwardResult" ->
            [id |-> "Award ID", internalId |-> "generated_internal_id",
             amount |-> "Award Amount",
             stateCode |-> "Place of Performance State Code",
             city |-> "Place of Performance City Name"]
      [] tool = "transformTransactionResult" ->
            [awardId |-> "Award ID", actionDate |-> "Action Date",
             transactionAmount |-> "Transaction Amount",
             modificationNumber |-> "Modification Number"]
      [] OTHER ->
            [hash |-> "recipient_hash", name |-> "recipient_name",
             uei |-> "recipient_uei", duns |-> "recipient_unique_id",
             level |-> "recipient_level"]

\* The normalized fields of a projected object as JSON.stringify writes them,
\* those of the nested placeOfPerformance object included.
StringifiedFields(object) ==
    IF "placeOfPerformance" \in DOMAIN object
    THEN LET nested == JSONstringifyObject(object.placeOfPerformance)
             top == JSONstringifyObject(
                        [k \in DOMAIN object \ {"placeOfPerformance"} |-> object[k]])
         IN  [k \in DOMAIN top \union DOMAIN nested |->
                 IF k \in DOMAIN top THEN top[k] ELSE nested[k]]
    ELSE JSONstringifyObject(object)

RetryBounded ==
    \A c \in Calls :
        calls[c].via = "client" =>
            /\ calls[c].dispatched <= client.maxRetries + 1
            /\ calls[c].dispatched <= calls[c].attempt + 1
            /\ (calls[c].pc = "backoff" /\ MetResponse(c)) =>
                  calls[c].cause.resp.status = 429
            /\ (MetResponse(c) /\ calls[c].cause.resp.status # 429) => Done(c)

KeyOf(field) ==
    CASE field = "keywords"             -> "keywords"
      [] field = "recipientName"        -> "recipient_search_text"
      [] field = "agencyName"           -> "agencies"
      [] field = "naicsCodes"           -> "naics_codes"
      [] field = "pscCodes"             -> "psc_codes"
      [] field = "activityStartDate"    -> "time_period"
      [] field = "activityEndDate"      -> "time_period"
      [] field = "minAmount"            -> "award_amounts"
      [] field = "maxAmount"            -> "award_amounts"
      [] field = "state"                -> "place_of_performance_locations"
      [] field = "awardTypeCodes"       -> "award_type_codes"
      [] field = "setAsideTypes"        -> "set_aside_type_codes"
      [] field = "extentCompeted"       -> "extent_competed_type_codes"
      [] field = "contractPricingTypes" -> "contract_pricing_type_codes"
      [] OTHER                          -> "none"

\* C24: the builder rules are independent: giving one source field another value
\* changes at most the one compiled key the field maps to (activityStartDate and
\* activityEndDate both map to time_period) and leaves every other key of the
\* compiled filter as it was, present or not.
C24_OneFieldOneKey ==
    compiled.changed.field # "none" =>
        LET before == compiled.filters
            after  == compiled.changed.filters
        IN  \A key \in (DOMAIN before \union DOMAIN after) \ {KeyOf(compiled.changed.field)} :
                /\ key \in DOMAIN before
                /\ key \in DOMAIN after
                /\ before[key] = after[key]

\* agencyName goes from "Acme" to not supplied beside a supplied naicsCodes:
\* agencies goes, naics_codes stays.
C24_Witness ==
    /\ compiled.changed.field = "agencyName"
    /\ filterParams.agencyName = Some("Acme")
    /\ compiled.changed.value = Absent
    /\ "agencies" \in DOMAIN compiled.filters
    /\ "agencies" \notin DOMAIN compiled.changed.filters
    /\ "naics_codes" \in DOMAIN compiled.filters
    /\ compiled.changed.filters["naics_codes"] = compiled.filters["naics_codes"]

\* C25: the two implementations of "new awards only" agree: from every page of
\* transactions (modification number "0", another number, empty or absent)
\* search_awards with searchNewAwardsOnly and search_new_awards retain exactly
\* the same records, so the answer of either is what the other's filter retains.
C25_SameRecordsRetained ==
    LET results == ResultsOf(upstream)
    IN  /\ output.tool = "search_awards" =>
               /\ output.awards = transformTransactionResults(SelectSeq(results, IsNewAward))
               /\ output.total = Len(SelectSeq(results, IsNewAward))
        /\ output.tool = "search_new_awards" =>
               /\ output.awards = transformTransactionResults(SelectSeq(results, IsBaseAward))
               /\ output.total = Len(SelectSeq(results, IsBaseAward))

\* C26: single-date and range resolution agree on every phrase the single-date
\* resolver accepts (today, yesterday, N days ago, last N days, last week, last
\* month, last N months, last quarter, last year, N years ago, a literal
\* YYYY-MM-DD): the start_date parseDateRange gives for the phrase is the date
\* parseNaturalDate gives for it on the same day.
C26_RangeStartIsSingleDate ==
    /\ resolved.by = "parseDateRange" =>
           LET single == parseNaturalDate(ValueOf(request.dateRange), request.today)
           IN  ~single.warned => resolved.start_date = single.value
    /\ (resolved.by = "parseNaturalDate" /\ ~resolved.warned) =>
           resolved.value =
               parseDateRange(ValueOf(request.startDate), request.today).start_date

\* The calendar dates whose texts the compiled filters carry.
CalendarDates ==
    Todays \union {OneYearBefore(today) : today \in Todays}
           \union {[y |-> 2024, m |-> 1, d |-> 15]}

\* The calendar date a YYYY-MM-DD text names.
DateOf(text) == CHOOSE date \in CalendarDates : ISODate(date) = text

\* A number that orders calendar dates.
DayNumber(date) == date.y * 10000 + date.m * 100 + date.d

\* text1 names a day no later than text2 does.
NotAfter(text1, text2) == DayNumber(DateOf(text1)) <= DayNumber(DateOf(text2))

\* C27: every time_period a tool sends upstream is a well-formed range, its
\* start_date no later than its end_date, also when only one bound is supplied
\* and the other is made from today, whether the supplied date is past or future.
C27_StartNotAfterEnd ==
    (sent.tool # "none" /\ "time_period" \in DOMAIN sent.filters) =>
        \A i \in 1..Len(sent.filters["time_period"]) :
            NotAfter(sent.filters["time_period"][i].start_date,
                     sent.filters["time_period"][i].end_date)

\* The sum of the awardCount of a sequence of aggregates.
RECURSIVE SumAwardCount(_)
SumAwardCount(recipients) ==
    IF recipients = <<>> THEN 0
    ELSE Head(recipients).awardCount + SumAwardCount(Tail(recipients))

\* The records of a page that carry no recipient name.
Nameless(page) ==
    SelectSeq(page, LAMBDA award : ~TruthyString(award["Recipient Name"]))

\* C28: the competition aggregation conserves the fetched page: the awardCount
\* of the aggregates sum to the number of fetched records, each aggregate lists
\* as many award ids as its awardCount, the totalAmount of the aggregates sum to
\* the sum of the fetched amounts, and the records without a recipient name are
\* all counted under the one name "Unknown".
C28_AggregationConserves ==
    output.tool = "analyze_competition" =>
        LET page == ResultsOf(upstream)
            all  == output.recipientMap
        IN  /\ SumAwardCount(all) = Len(page)
            /\ \A k \in 1..Len(all) : Len(all[k].awards) = all[k].awardCount
            /\ SumTotalAmount(all) = SumAwardAmounts(page)
            /\ \A k, l \in 1..Len(all) : all[k].name = all[l].name => k = l
            /\ Nameless(page) # <<>> =>
                   \E k \in 1..Len(all) :
                       /\ all[k].name = "Unknown"
                       /\ all[k].awardCount = Len(Nameless(page))
            /\ Nameless(page) = <<>> =>
                   \A k \in 1..Len(all) : all[k].name # "Unknown"

\* Two nameless awards of 1 and 2 around one of Acme: "Unknown" holds 2 awards
\* and 3 in total, Acme 1 award.
C28_Witness ==
    /\ output.tool = "analyze_competition"
    /\ Len(ResultsOf(upstream)) = 3
    /\ Len(Nameless(ResultsOf(upstream))) = 2
    /\ Len(output.recipientMap) = 2
    /\ \E k \in 1..2 :
           /\ output.recipientMap[k].name = "Unknown"
           /\ output.recipientMap[k].awardCount = 2
           /\ output.recipientMap[k].totalAmount = 3
           /\ Len(output.recipientMap[k].awards) = 2

\* C29: whatever calendar day today is, it lies within the range of the current
\* fiscal year: October to December belong to the next calendar year's fiscal
\* year, and the range of fiscal year FY runs from Oct 1 of FY - 1 to Sep 30 of FY.
C29_TodayInCurrentFiscalYear ==
    resolved.by = "getFiscalYearRange" =>
        LET today == request.today
            fy    == ValueOf(request.fiscalYear)
            first == [y |-> fy - 1, m |-> 10, d |-> 1]
            last  == [y |-> fy, m |-> 9, d |-> 30]
        IN  /\ fy = (IF today.m \in {10, 11, 12} THEN today.y + 1 ELSE today.y)
            /\ resolved.start_date = ISODate(first)
            /\ resolved.end_date = ISODate(last)
            /\ DayNumber(first) <= DayNumber(today)
            /\ DayNumber(today) <= DayNumber(last)

\* 2024-09-30 is the last day of fiscal year 2024; 2024-10-01 would be in 2025.
C29_Witness ==
    /\ resolved.by = "getFiscalYearRange"
    /\ request.today = [y |-> 2024, m |-> 9, d |-> 30]
    /\ request.fiscalYear = Some(2024)
    /\ resolved.start_date = "2023-10-01"
    /\ resolved.end_date = "2024-09-30"

\* Call c hands a request to fetch in this step.
DispatchStep(c) ==
    /\ calls[c].pc # "fetching"
    /\ calls'[c].pc = "fetching"
    /\ calls'[c].via = "client"

\* C30: lastRequestTime never decreases, and every dispatch of the client, the
\* first attempt and each retry of every call, comes out of throttleRequest and
\* sets lastRequestTime, so that a retry too is dispatched no sooner than
\* requestDelay after the dispatch recorded before it.
C30_RetriesThrottled ==
    [][ /\ lastRequestTime' >= lastRequestTime
        /\ \A c \in Calls :
              DispatchStep(c) =>
                  /\ lastRequestTime' = now
                  /\ \/ calls[c].pc = "throttleSleep" /\ now >= calls[c].wakeAt
                     \/ ~ShouldSleep(now, lastRequestTime, client.requestDelay)
                  /\ calls'[c].attempt > 0 =>
                         now - lastRequestTime >= client.requestDelay ]_vars

====
